---- MODULE Spec2Model ----
(***************************************************************************)
(* Gopher, the userspace network service of the Glenda microkernel.        *)
(*                                                                         *)
(* The module models                                                       *)
(*   - the net device adapter GlendaNetDevice (src/src/device.rs): the     *)
(*     polled receive/transmit token interface over a driver's             *)
(*     submission/completion ring and the shared packet pool;              *)
(*   - the server core GopherServer (src/src/gopher/mod.rs, server.rs):    *)
(*     init, the event loop, the dispatcher and the probe pipeline;        *)
(*   - the socket multiplexer and facade (src/src/gopher/network.rs),      *)
(*     with the per-socket uring servers.                                  *)
(*                                                                         *)
(* The code is single threaded: every handler is one atomic action.  The   *)
(* drivers, the device manager, the clients and the TCP/IP stack are the   *)
(* environment; each of their answers is an input of the action that asks. *)
(***************************************************************************)
EXTENDS Integers, Sequences, FiniteSets, TLC

VARIABLES
    netdev,      \* device id -> GlendaNetDevice {rx_pending, ring sq, ring cq, shm}
    shm_write,   \* history: the service's last write into the packet pool
    rx_token,    \* history: what the last receive() on each device returned
    dev_ops,     \* history: receive()/transmit() calls made by the stack so far
    server,      \* the GopherServer: its fields
    unicorn,     \* the device manager: the names of the Net devices it lists
    life,        \* which of listen(), init(), run() were called, with init's result
    iter,        \* history: what the last iteration of the event loop did
    live,        \* history: badges returned by socket() and not closed since
    offered,     \* history: hardware id -> times it was offered for probing
    uring_log,   \* history: badge -> user_data taken from / completed on its uring
    uring_ops    \* history: requests the clients submitted on the urings so far

devvars == <<netdev, shm_write, rx_token, dev_ops>>

srvvars == <<server, unicorn, life, iter, live, offered, uring_log, uring_ops>>

vars == <<netdev, shm_write, rx_token, dev_ops,
          server, unicorn, life, iter, live, offered, uring_log, uring_ops>>

----------------------------------------------------------------------------
(* Bounds of the model.                                                    *)

\* Real net devices attached to the global packet pool.
NDev == 2

\* receive()/transmit() calls the stack makes on the devices in one run.
MaxDevOps == 5

\* Sockets one run creates.
MaxSockets == 2

\* Entries of a per-socket uring's submission queue and completion queue.
UringEntries == 2

\* Pages of the ring region the optional bumps (uring setups, failed probes)
\* may use.
MaxRingPages == 3

\* Requests the clients submit on the urings in one run.
MaxUringOps == 3

\* Calls of stop() in one run.
MaxStops == 2

\* Program constants.
RING_ENTRIES == 4
RX_ID == 256
RX_BUF_LEN == 2048
PGSIZE == 4096
SOCK_BUF == 4096
RECV_BUF == 2048
RING_VA == 805306368
SHM_VA == 1073741824
DEFAULT_BUFFER_SIZE == 1048576

Devices == 1..NDev

\* Option<T>: None, or Some(v).
None == <<>>

Some(v) == <<v>>

\* Lengths of the frames the stack transmits (minimum frame, MTU + header).
FrameLens == {64, 1514}

----------------------------------------------------------------------------
(* The driver side of the ring (glenda_drivers NetClient and the driver).  *)

ReadSqe == [op |-> "READ", off |-> 0, len |-> RX_BUF_LEN, user_data |-> RX_ID]

WriteSqe(len) == [op |-> "WRITE", off |-> 0, len |-> len, user_data |-> 0]

\* The results a driver may report for a request: the completion is the
\* driver's word, which nothing holds to the length of the request.
DriverResults(sqe) ==
    IF sqe.op = "READ" THEN {-1, 0, 64, sqe.len, sqe.len + 1} ELSE {-1, sqe.len}

\* READ submissions handed to the driver of device d and not yet completed.
OutstandingReads(dv) ==
    Cardinality({i \in 1..Len(dv.sq) : dv.sq[i].op = "READ"})

\* NetClient::submit_recv: one READ request on the submission queue, refused
\* when the queue is full.
submit_recv(dv) ==
    IF Len(dv.sq) < RING_ENTRIES
    THEN [dev |-> [dv EXCEPT !.sq = Append(@, ReadSqe)], ok |-> TRUE]
    ELSE [dev |-> dv, ok |-> FALSE]

\* NetClient::send_packet: one WRITE request; a full queue is an error the
\* caller ignores.
send_packet(dv, len) ==
    IF Len(dv.sq) < RING_ENTRIES
    THEN [dv EXCEPT !.sq = Append(@, WriteSqe(len))]
    ELSE dv

----------------------------------------------------------------------------
(* GlendaNetDevice (src/src/device.rs).                                    *)

\* GlendaNetDevice::new, then setup_ring and setup_shm of probe.
NewDevice == [rx_pending |-> FALSE, sq |-> <<>>, cq |-> <<>>, shm |-> TRUE]

\* First half of receive(): submit one RX buffer unless one is pending.
receive_submit(dv) ==
    IF dv.shm /\ ~dv.rx_pending
    THEN LET r == submit_recv(dv)
         IN  IF r.ok THEN [r.dev EXCEPT !.rx_pending = TRUE] ELSE dv
    ELSE dv

\* Whether the peeked head completion clears the pending flag.
receive_matches(cqe) == cqe.user_data = RX_ID

\* Second half of receive(): peek the completion queue.  peek_cqe belongs to
\* the driver client library; whether it also advances the queue's head is
\* the library's choice, the input `consume`.
receive_peek(dv, consume) ==
    IF dv.rx_pending /\ dv.cq # <<>>
    THEN LET cqe == Head(dv.cq)
             d1  == [dv EXCEPT !.cq = IF consume THEN Tail(@) ELSE @]
         IN  IF receive_matches(cqe)
             THEN [dev |-> [d1 EXCEPT !.rx_pending = FALSE],
                   token |-> IF cqe.res > 0
                             THEN Some([shm_idx |-> 0, len |-> cqe.res])
                             ELSE None]
             ELSE [dev |-> d1, token |-> None]
    ELSE [dev |-> dv, token |-> None]

receive(dv, consume) == receive_peek(receive_submit(dv), consume)

\* The region of the pool TxToken::consume hands to the stack's writer.
tx_region(dv, len) ==
    IF dv.shm THEN [pool |-> TRUE, off |-> 0, len |-> len]
    ELSE [pool |-> FALSE, off |-> 0, len |-> len]

\* Devices (of the shared pool) whose driver holds an RX buffer overlapping
\* the region [off, off + len).
RxBusy(devs, off, len) ==
    {d \in DOMAIN devs :
        \E i \in 1..Len(devs[d].sq) :
            /\ devs[d].sq[i].op = "READ"
            /\ devs[d].sq[i].off < off + len
            /\ off < devs[d].sq[i].off + devs[d].sq[i].len}

----------------------------------------------------------------------------
(* Results of the fallible operations: Result<T, Error>.                   *)

Ok(v) == [ok |-> TRUE, val |-> v, err |-> "Success"]

Err(e) == [ok |-> FALSE, val |-> 0, err |-> e]

\* A function without the key k (BTreeMap::remove).
MapRemove(m, k) == [x \in DOMAIN m \ {k} |-> m[x]]

\* A function with k bound to v (BTreeMap::insert).
MapInsert(m, k, v) == [x \in DOMAIN m \cup {k} |-> IF x = k THEN v ELSE m[x]]

EmptyMap == [x \in {} |-> 0]

Min(a, b) == IF a < b THEN a ELSE b

\* glenda::utils::align::align_up.
align_up(n, a) == ((n + a - 1) \div a) * a

----------------------------------------------------------------------------
(* The stack's socket set (smoltcp SocketSet) and TCP sockets.             *)

\* tcp::Socket::new over two fresh buffers: closed, nothing queued.
NewTcpSocket == [state |-> "Closed", tx |-> 0, rx |-> 0]

\* SocketSet::add: the first free slot, or a new slot at the end; the handle
\* is the slot's index, counted from 0.
FreeSlots(set) == {i \in 1..Len(set) : set[i].state = "Free"}

SocketSet_add(set, sock) ==
    IF FreeSlots(set) # {}
    THEN LET i == CHOOSE j \in FreeSlots(set) : \A k \in FreeSlots(set) : j <= k
         IN  [set |-> [set EXCEPT ![i] = sock], handle |-> i - 1]
    ELSE [set |-> Append(set, sock), handle |-> Len(set)]

\* tcp::Socket::may_send / can_send / can_recv / send_slice / recv_slice.
may_send(sock) == sock.state = "Established"

can_send(sock) == may_send(sock) /\ sock.tx < SOCK_BUF

can_recv(sock) == sock.state = "Established" /\ sock.rx > 0

send_slice(sock, len) ==
    IF may_send(sock)
    THEN LET n == Min(len, SOCK_BUF - sock.tx)
         IN  [sock |-> [sock EXCEPT !.tx = @ + n], r |-> Ok(n)]
    ELSE [sock |-> sock, r |-> Err("InvalidState")]

recv_slice(sock, len) ==
    IF sock.state = "Established"
    THEN LET n == Min(len, sock.rx)
         IN  [sock |-> [sock EXCEPT !.rx = @ - n], r |-> Ok(n)]
    ELSE [sock |-> sock, r |-> Err("InvalidState")]

\* Live sockets of the set.
StackSockets(s) == {i \in 1..Len(s.sockets) : s.sockets[i].state # "Free"}

----------------------------------------------------------------------------
(* NetworkService for GopherServer and SocketService for GopherSocket      *)
(* (src/src/gopher/network.rs).  Each takes the server and gives the       *)
(* server after the call and the call's result.                            *)

\* The badge of a new socket: the stack handle reinterpreted as an integer.
badge_of(handle) == handle

socket(s, domain, socket_type) ==
    IF domain # "AF_INET" THEN [s |-> s, r |-> Err("InvalidArgs")]
    ELSE IF socket_type # "SOCK_STREAM" THEN [s |-> s, r |-> Err("NotSupported")]
    ELSE LET a == SocketSet_add(s.sockets, NewTcpSocket)
             badge == badge_of(a.handle)
         IN  [s |-> [s EXCEPT !.sockets = a.set,
                              !.socket_map = MapInsert(@, badge, a.handle)],
              r |-> Ok(badge)]

bind(s, badge, address) ==
    IF badge \notin DOMAIN s.socket_map THEN [s |-> s, r |-> Err("NotFound")]
    ELSE [s |-> s, r |-> Ok(0)]

listen(s, badge, backlog) ==
    IF badge \notin DOMAIN s.socket_map THEN [s |-> s, r |-> Err("NotFound")]
    ELSE [s |-> s, r |-> Ok(0)]

accept(s, badge) == [s |-> s, r |-> Err("NotSupported")]

connect(s, badge, address) == [s |-> s, r |-> Err("NotSupported")]

send(s, badge, len) ==
    IF badge \notin DOMAIN s.socket_map THEN [s |-> s, r |-> Err("NotFound")]
    ELSE LET i == s.socket_map[badge] + 1
         IN  IF ~can_send(s.sockets[i]) THEN [s |-> s, r |-> Err("WouldBlock")]
             ELSE LET w == send_slice(s.sockets[i], len)
                  IN  [s |-> [s EXCEPT !.sockets[i] = w.sock],
                       r |-> IF w.r.ok THEN w.r ELSE Err("Generic")]

recv(s, badge, len) ==
    IF badge \notin DOMAIN s.socket_map THEN [s |-> s, r |-> Err("NotFound")]
    ELSE LET i == s.socket_map[badge] + 1
         IN  IF ~can_recv(s.sockets[i]) THEN [s |-> s, r |-> Err("WouldBlock")]
             ELSE LET w == recv_slice(s.sockets[i], len)
                  IN  [s |-> [s EXCEPT !.sockets[i] = w.sock],
                       r |-> IF w.r.ok THEN w.r ELSE Err("Generic")]

\* A close that empties the socket table.
close_clears_table(s, badge) ==
    [s |-> [s EXCEPT !.socket_map = EmptyMap], r |-> Ok(0)]

\* A close that also frees the socket's slot in the socket set.
close_frees_slot(s, badge) ==
    IF badge \notin DOMAIN s.socket_map THEN [s |-> s, r |-> Ok(0)]
    ELSE [s |-> [s EXCEPT !.socket_map = MapRemove(@, badge),
                          !.sockets[s.socket_map[badge] + 1].state = "Free"],
          r |-> Ok(0)]

close(s, badge) ==
    [s |-> [s EXCEPT !.socket_map = MapRemove(@, badge)], r |-> Ok(0)]

\* A setup_iouring that takes its ring addresses before it looks the badge up.
setup_iouring_bump_first(s, badge, size, frame, mmap_ok) ==
    LET s1 == [s EXCEPT !.next_ring_vaddr = @ + align_up(size, PGSIZE)]
    IN  IF badge \notin DOMAIN s.socket_map THEN [s |-> s1, r |-> Err("NotFound")]
        ELSE IF frame /\ ~mmap_ok THEN [s |-> s1, r |-> Err("IpcError")]
        ELSE [s |-> [s1 EXCEPT !.uring_servers =
                        MapInsert(@, badge, [addr |-> s.next_ring_vaddr, size |-> size,
                                             sq |-> <<>>, cq |-> <<>>])],
              r |-> Ok(0)]

\* setup_iouring: frame says whether the client sent a frame capability,
\* mmap_ok whether the resource manager maps it.
setup_iouring(s, badge, size, frame, mmap_ok) ==
    IF badge \notin DOMAIN s.socket_map THEN [s |-> s, r |-> Err("NotFound")]
    ELSE LET size_aligned == align_up(size, PGSIZE)
             addr_server == s.next_ring_vaddr
             s1 == [s EXCEPT !.next_ring_vaddr = @ + size_aligned]
         IN  IF frame /\ ~mmap_ok THEN [s |-> s1, r |-> Err("IpcError")]
             ELSE [s |-> [s1 EXCEPT !.uring_servers =
                             MapInsert(@, badge, [addr |-> addr_server, size |-> size,
                                                  sq |-> <<>>, cq |-> <<>>])],
                   r |-> Ok(0)]

\* IoUringServer::complete: one completion on the completion queue; refused
\* when the queue is full (the caller drops the refusal).
complete(ring, user_data, res) ==
    IF Len(ring.cq) < UringEntries
    THEN [ring EXCEPT !.cq = Append(@, [user_data |-> user_data, res |-> res])]
    ELSE ring

\* The result a completion carries: the length, or the negated error.
cqe_result(r) == [neg |-> ~r.ok, len |-> r.val, err |-> r.err]

\* One request of process_iouring's loop: st is the server and the ring the
\* call took out of the table.
process_request(st, badge, sqe) ==
    IF sqe.opcode = "READ"
    THEN LET c == recv(st.s, badge, sqe.len)
         IN  [s |-> c.s, ring |-> complete(st.ring, sqe.user_data, cqe_result(c.r))]
    ELSE IF sqe.opcode = "WRITE"
    THEN LET c == send(st.s, badge, sqe.len)
         IN  [s |-> c.s, ring |-> complete(st.ring, sqe.user_data, cqe_result(c.r))]
    ELSE [s |-> st.s,
          ring |-> complete(st.ring, sqe.user_data, cqe_result(Err("NotSupported")))]

\* while let Some(sqe) = uring_server.next_request() { ... }
RECURSIVE drain_requests(_, _)
drain_requests(st, badge) ==
    IF st.ring.sq = <<>> THEN st
    ELSE drain_requests(
             process_request([s |-> st.s, ring |-> [st.ring EXCEPT !.sq = Tail(@)]],
                             badge, Head(st.ring.sq)),
             badge)

process_iouring(s, badge) ==
    IF badge \notin DOMAIN s.uring_servers THEN [s |-> s, r |-> Err("NotFound")]
    ELSE LET taken == [s |-> [s EXCEPT !.uring_servers = MapRemove(@, badge)],
                       ring |-> s.uring_servers[badge]]
             done == drain_requests(taken, badge)
         IN  [s |-> [done.s EXCEPT !.uring_servers = MapInsert(@, badge, done.ring)],
              r |-> Ok(0)]

----------------------------------------------------------------------------
(* The device manager and network.json (the environment of the probes).    *)

\* Logic devices the device manager may list, in the order it lists them.
Names == <<"eth0", "eth1", "net0">>

NameSet == {Names[i] : i \in 1..Len(Names)}

\* get_logic_desc: "eth0" and "net0" are two logic devices of one hardware.
HwOf(name) == IF name = "eth1" THEN 2 ELSE 1

HwIds == {HwOf(n) : n \in NameSet}

DescTypeOf(name) == "Net"

\* Ipv4Address::from_str on the strings the configurations use.
ParseIpv4(str) ==
    CASE str = "0.0.0.0"     -> Ok(<<0, 0, 0, 0>>)
      [] str = "10.0.2.2"    -> Ok(<<10, 0, 2, 2>>)
      [] str = "10.0.2.15"   -> Ok(<<10, 0, 2, 15>>)
      [] str = "192.168.1.1" -> Ok(<<192, 168, 1, 1>>)
      [] str = "192.168.1.5" -> Ok(<<192, 168, 1, 5>>)
      [] str = "192.168.1.9" -> Ok(<<192, 168, 1, 9>>)
      [] OTHER               -> Err("AddrParseError")

\* Contents of network.json that parse: eth0 named with a gateway and a global
\* default route; eth1 named without a gateway and no global route.
ConfigA ==
    [buffer_size |-> 8192,
     interfaces |-> <<[name |-> "eth0", ipv4 |-> "192.168.1.5", mask |-> 16,
                       gateway |-> Some("192.168.1.1")]>>,
     routes |-> <<[dest |-> "0.0.0.0", mask |-> 0, via |-> "192.168.1.9"]>>]

ConfigB ==
    [buffer_size |-> 5000,
     interfaces |-> <<[name |-> "eth1", ipv4 |-> "192.168.1.5", mask |-> 24,
                       gateway |-> None]>>,
     routes |-> <<>>]

Configs == {ConfigA, ConfigB}

\* What get_config and the parse of the file may give.
ConfigOutcomes ==
    {[kind |-> k, config |-> ConfigA] : k \in {"absent", "mmap_fail", "not_utf8", "malformed"}}
    \cup {[kind |-> "valid", config |-> c] : c \in Configs}

\* Further contents that parse: eth0 with a gateway and no route; eth0 with
\* an address that is no IPv4 address; no interface entry and a global default
\* route; eth0 with a gateway that is no IPv4 address; eth0 with a gateway and
\* a route that is no default route.
ConfigC ==
    [buffer_size |-> 8192,
     interfaces |-> <<[name |-> "eth0", ipv4 |-> "192.168.1.5", mask |-> 16,
                       gateway |-> Some("192.168.1.1")]>>,
     routes |-> <<>>]

ConfigD ==
    [buffer_size |-> 8192,
     interfaces |-> <<[name |-> "eth0", ipv4 |-> "192.168.1", mask |-> 16,
                       gateway |-> Some("192.168.1.1")]>>,
     routes |-> <<[dest |-> "0.0.0.0", mask |-> 0, via |-> "192.168.1.9"]>>]

ConfigE ==
    [buffer_size |-> 8192,
     interfaces |-> <<>>,
     routes |-> <<[dest |-> "0.0.0.0", mask |-> 0, via |-> "192.168.1.9"]>>]

ConfigF ==
    [buffer_size |-> 8192,
     interfaces |-> <<[name |-> "eth0", ipv4 |-> "192.168.1.5", mask |-> 16,
                       gateway |-> Some("gateway")]>>,
     routes |-> <<>>]

ConfigG ==
    [buffer_size |-> 8192,
     interfaces |-> <<[name |-> "eth0", ipv4 |-> "192.168.1.5", mask |-> 16,
                       gateway |-> Some("192.168.1.1")]>>,
     routes |-> <<[dest |-> "10.0.2.2", mask |-> 0, via |-> "192.168.1.9"],
                  [dest |-> "0.0.0.0", mask |-> 8, via |-> "192.168.1.9"]>>]

\* Every outcome of get_config and the parse, over all the contents above.
AllConfigOutcomes ==
    ConfigOutcomes
    \cup {[kind |-> "valid", config |-> c] :
             c \in {ConfigC, ConfigD, ConfigE, ConfigF, ConfigG}}

\* Contents that parse and differ in buffer_size only, around the page size.
PoolSizes == {0, 1, PGSIZE, PGSIZE + 1}

PoolConfigOutcomes ==
    ConfigOutcomes
    \cup {[kind |-> "valid", config |-> [ConfigB EXCEPT !.buffer_size = n]] :
             n \in PoolSizes}

\* Byte size of the configuration file.
ConfigFileSize(outcome) == IF outcome.kind = "valid" THEN 300 ELSE 40

----------------------------------------------------------------------------
(* GopherServer (src/src/gopher/mod.rs).                                   *)

\* GopherServer::new.
NewServer ==
    [endpoint |-> None, reply |-> None, recv |-> None, running |-> FALSE,
     interfaces |-> <<>>, sockets |-> <<>>,
     socket_map |-> EmptyMap, uring_servers |-> EmptyMap,
     next_ring_vaddr |-> RING_VA, next_shm_vaddr |-> SHM_VA,
     pending_devices |-> <<>>, probed_hardware |-> {},
     shm_frame |-> None, config |-> None]

\* Routes::add_default_ipv4_route: the default route is replaced.
add_default_ipv4_route(iface, gw) == [iface EXCEPT !.default_route = Some(gw)]

\* Interface::update_ip_addrs(|addrs| addrs.push(cidr)).
push_ip_addr(iface, addr, prefix) ==
    [iface EXCEPT !.ip_addrs = Append(@, [addr |-> addr, prefix |-> prefix])]

LoopbackInterface ==
    push_ip_addr([kind |-> "Loopback", name |-> "lo", hw |-> 0,
                  device |-> [rx_pending |-> FALSE, sq |-> <<>>, cq |-> <<>>, shm |-> FALSE],
                  pool |-> None,
                  ip_addrs |-> <<>>, default_route |-> None],
                 <<127, 0, 0, 1>>, 8)

\* An init step that creates no loopback interface.
setup_loopback_skipped(s) == s

setup_loopback(s) == [s EXCEPT !.interfaces = Append(@, LoopbackInterface)]

Contains(seq, x) == \E i \in 1..Len(seq) : seq[i] = x

\* A sync that puts the new names at the front of the queue.
enqueue_names_front(pending, names) ==
    SelectSeq(names, LAMBDA n : ~Contains(pending, n)) \o pending

\* A sync that looks for a name only among those queued before it.
enqueue_names_unchecked(pending, names) ==
    pending \o SelectSeq(names, LAMBDA n : ~Contains(pending, n))

\* A sync that queues nothing.
enqueue_names_dropped(pending, names) == pending

\* The loop of sync_devices over the names the query returned.
RECURSIVE enqueue_names(_, _)
enqueue_names(pending, names) ==
    IF names = <<>> THEN pending
    ELSE enqueue_names(IF ~Contains(pending, Head(names))
                       THEN Append(pending, Head(names)) ELSE pending,
                       Tail(names))

\* sync_devices: query is the device manager's answer.
sync_devices(s, query) ==
    IF ~query.ok THEN [s |-> s, r |-> Err(query.err)]
    ELSE [s |-> [s EXCEPT !.pending_devices = enqueue_names(@, query.val)],
          r |-> Ok(0)]

\* A re-sync that asks nothing and queues nothing.
handle_notify_sync_idle(s, query) == [s |-> s, r |-> Ok(0)]

handle_notify_sync(s, query) == sync_devices(s, query)

\* config.interfaces.iter().find(|i| i.name == name)
find_iface_config(ifaces, name) ==
    LET hits == {i \in 1..Len(ifaces) : ifaces[i].name = name}
    IN  IF hits = {} THEN None
        ELSE Some(ifaces[CHOOSE i \in hits : \A j \in hits : i <= j])

\* The named interface entry applied to the interface: address, then gateway.
apply_iface_config(iface, ic) ==
    LET addr == ParseIpv4(ic.ipv4)
    IN  IF ~addr.ok THEN [iface |-> iface, configured |-> FALSE]
        ELSE LET i1 == push_ip_addr(iface, addr.val, ic.mask)
                 gw == IF ic.gateway = None THEN Err("None") ELSE ParseIpv4(ic.gateway[1])
             IN  [iface |-> IF gw.ok THEN add_default_ipv4_route(i1, gw.val) ELSE i1,
                  configured |-> TRUE]

\* A configuration step that applies no global route.
apply_global_routes_skipped(iface, routes) == iface

\* for route in &config.routes { ... }
RECURSIVE apply_global_routes(_, _)
apply_global_routes(iface, routes) ==
    IF routes = <<>> THEN iface
    ELSE LET route == Head(routes)
             dest == ParseIpv4(route.dest)
             via == ParseIpv4(route.via)
         IN  apply_global_routes(
                 IF dest.ok /\ via.ok /\ dest.val = <<0, 0, 0, 0>> /\ route.mask = 0
                 THEN add_default_ipv4_route(iface, via.val) ELSE iface,
                 Tail(routes))

\* The fallback of an interface the configuration did not configure.
apply_fallback(iface) ==
    add_default_ipv4_route(push_ip_addr(iface, <<10, 0, 2, 15>>, 24), <<10, 0, 2, 2>>)

\* The configuration step of probe.
configure_iface(s, iface, name) ==
    LET named == IF s.config = None THEN None
                 ELSE find_iface_config(s.config[1].interfaces, name)
        a == IF named = None THEN [iface |-> iface, configured |-> FALSE]
             ELSE apply_iface_config(iface, named[1])
        b == IF s.config = None THEN a.iface
             ELSE apply_global_routes(a.iface, s.config[1].routes)
    IN  IF a.configured THEN b ELSE apply_fallback(b)

\* A probe that registers the device with a pool of its own, taken from the
\* SHM region behind the global one.
device_pool_private(s) ==
    Some([vaddr |-> s.next_shm_vaddr, size |-> PGSIZE, paddr |-> 65536])

\* The pool probe registers the device with: the global one (setup_shm).
device_pool(s) == s.shm_frame

\* probe: fail names the driver or resource-manager call that fails
\* ("ring", "mmap", "shm"), or "none".
probe(s, name, hw_id, fail) ==
    LET s1 == [s EXCEPT !.next_ring_vaddr = @ + PGSIZE]
    IN  IF fail = "ring" \/ fail = "mmap" THEN [s |-> s1, r |-> Err("IpcError")]
        ELSE IF s1.shm_frame = None THEN [s |-> s1, r |-> Err("NotInitialized")]
        ELSE IF fail = "shm" THEN [s |-> s1, r |-> Err("IpcError")]
        ELSE LET iface == configure_iface(s1,
                              [kind |-> "Net", name |-> name, hw |-> hw_id,
                               device |-> NewDevice,
                               pool |-> device_pool(s1),
                               ip_addrs |-> <<>>, default_route |-> None],
                              name)
             IN  [s |-> [s1 EXCEPT !.interfaces = Append(@, iface),
                                   !.probed_hardware = @ \cup {hw_id}],
                  r |-> Ok(0)]

\* A check that probes every Net descriptor, seen hardware or not.
needs_probe_every_name(s, name) == DescTypeOf(name) = "Net"

\* Whether the pending name is probed: a Net descriptor of unseen hardware.
needs_probe(s, name) ==
    DescTypeOf(name) = "Net" /\ HwOf(name) \notin s.probed_hardware

\* A probe pass that leaves the queue as it is.
process_pending_probes_idle(s, fail) ==
    [s |-> s, r |-> Ok(0), seen |-> <<>>, tried |-> <<>>]

\* process_pending_probes.  fail = [name, at]: the call made for `name` that
\* fails ("desc", "slot", "ep", "ring", "mmap", "shm"), at |-> "none" when
\* every call succeeds.  st carries the server, the hardware ids offered and
\* the names taken off the queue, in the order they were taken.
RECURSIVE drain_probes(_, _)
drain_probes(st, fail) ==
    IF st.s.pending_devices = <<>>
    THEN [s |-> st.s, r |-> Ok(0), seen |-> st.seen, tried |-> st.tried]
    ELSE LET name == Head(st.s.pending_devices)
             s1 == [st.s EXCEPT !.pending_devices = Tail(@)]
             at == IF fail.name = name THEN fail.at ELSE "none"
             tried == Append(st.tried, name)
             seen == Append(st.seen, HwOf(name))
         IN  IF at = "desc"
             THEN [s |-> s1, r |-> Err("IpcError"), seen |-> st.seen, tried |-> tried]
             ELSE IF ~needs_probe(s1, name)
             THEN drain_probes([s |-> s1, seen |-> seen, tried |-> tried], fail)
             ELSE IF at = "slot" \/ at = "ep"
             THEN [s |-> s1, r |-> Err("IpcError"), seen |-> seen, tried |-> tried]
             ELSE LET p == probe(s1, name, HwOf(name), at)
                  IN  IF ~p.r.ok
                      THEN [s |-> p.s, r |-> p.r, seen |-> seen, tried |-> tried]
                      ELSE drain_probes([s |-> p.s, seen |-> seen, tried |-> tried], fail)

process_pending_probes(s, fail) ==
    drain_probes([s |-> s, seen |-> <<>>, tried |-> <<>>], fail)

ProbeFails ==
    {[name |-> "-", at |-> "none"]}
    \cup {[name |-> n, at |-> a] : n \in NameSet,
                                   a \in {"desc", "slot", "ep", "ring", "mmap", "shm"}}

----------------------------------------------------------------------------
(* SystemService for GopherServer (src/src/gopher/server.rs).              *)

\* Step 0 of init: network.json.  cfg is what get_config and the parse give.
load_config(s, cfg) ==
    IF cfg.kind = "absent" THEN [s |-> s, r |-> Ok(0)]
    ELSE LET s1 == [s EXCEPT !.next_ring_vaddr =
                                 @ + align_up(ConfigFileSize(cfg), PGSIZE)]
         IN  IF cfg.kind = "mmap_fail" THEN [s |-> s1, r |-> Err("IpcError")]
             ELSE IF cfg.kind = "valid"
             THEN [s |-> [s1 EXCEPT !.config = Some(cfg.config)], r |-> Ok(0)]
             ELSE [s |-> s1, r |-> Ok(0)]

\* Step 1 of init: the global packet pool.  fail names the call that fails
\* ("slot", "dma", "shm_mmap").
setup_shm_pool(s, fail) ==
    LET shm_size == IF s.config = None THEN DEFAULT_BUFFER_SIZE
                    ELSE s.config[1].buffer_size
        shm_pages == (shm_size + 4095) \div 4096
        shm_size_aligned == shm_pages * 4096
    IN  IF fail = "slot" \/ fail = "dma" THEN [s |-> s, r |-> Err("IpcError")]
        ELSE LET s1 == [s EXCEPT !.next_shm_vaddr = @ + shm_size_aligned]
             IN  IF fail = "shm_mmap" THEN [s |-> s1, r |-> Err("IpcError")]
                 ELSE [s |-> [s1 EXCEPT !.shm_frame =
                                 Some([vaddr |-> s.next_shm_vaddr,
                                       size |-> shm_size_aligned,
                                       paddr |-> 65536])],
                       r |-> Ok(0)]

\* init.  fail: the call of init itself that fails ("hook" included), or
\* "none"; query: the device manager's answer to the initial query; pfail:
\* the failure met by the initial probes.
init(s, cfg, fail, query, pfail) ==
    LET c == load_config(s, cfg)
    IN  IF ~c.r.ok THEN [s |-> c.s, r |-> c.r, seen |-> <<>>]
        ELSE LET m == setup_shm_pool(c.s, fail)
             IN  IF ~m.r.ok THEN [s |-> m.s, r |-> m.r, seen |-> <<>>]
                 ELSE LET s2 == setup_loopback(m.s)
                      IN  IF fail = "hook"
                          THEN [s |-> s2, r |-> Err("IpcError"), seen |-> <<>>]
                          ELSE LET y == sync_devices(s2, query)
                               IN  IF y.r.ok
                                   THEN LET d == process_pending_probes(y.s, pfail)
                                        IN  [s |-> d.s, r |-> Ok(0), seen |-> d.seen]
                                   ELSE [s |-> y.s, r |-> Ok(0), seen |-> <<>>]

InitFails == {"none", "slot", "dma", "shm_mmap", "hook"}

\* A stop that leaves the loop running.
stop_ignored(s) == s

\* stop.
stop(s) == [s EXCEPT !.running = FALSE]

\* listen.
listen_endpoint(s) ==
    [s EXCEPT !.endpoint = Some("ENDPOINT_CAP"), !.reply = Some("RECV_SLOT"),
              !.recv = Some("REPLY_SLOT")]

\* A poll that drops the interfaces of the real devices.
poll_drops_devices(s) ==
    [s EXCEPT !.interfaces = SelectSeq(@, LAMBDA c : c.kind = "Loopback")]

\* poll: the stack polls every interface; each poll of a real device calls
\* its receive() (the completion queues hold nothing the drivers did not put).
poll(s) ==
    [s EXCEPT !.interfaces =
        [i \in DOMAIN s.interfaces |->
            IF s.interfaces[i].kind = "Net"
            THEN [s.interfaces[i] EXCEPT !.device = receive(@, FALSE).dev]
            ELSE s.interfaces[i]]]

\* The UTCB a handler leaves for the reply.
Utcb(tag, r) == [tag |-> tag, mr0 |-> [err |-> r.err, val |-> r.val]]

\* glenda::ipc::server::handle_call: the closure's value goes to the UTCB.
handle_call(c) ==
    [s |-> c.s, r |-> IF c.r.ok THEN Ok(0) ELSE c.r,
     utcb |-> IF c.r.ok THEN Utcb("ok", c.r) ELSE Utcb("none", Ok(0))]

\* The arms of dispatch that set the tag themselves (BIND, CONNECT, SEND, RECV).
handle_inline(c) ==
    [s |-> c.s, r |-> IF c.r.ok THEN Ok(0) ELSE c.r,
     utcb |-> IF c.r.ok THEN Utcb("ok", c.r) ELSE Utcb("none", Ok(0))]

\* The SETUP_IOURING arm: the frame capability is moved to a new slot first.
dispatch_setup_iouring(s, msg) ==
    IF msg.has_cap /\ (msg.fail = "slot" \/ msg.fail = "move")
    THEN [s |-> s, r |-> Err("IpcError")]
    ELSE setup_iouring(s, msg.badge, msg.size, msg.has_cap, msg.fail # "mmap")

\* A NOTIFY arm that returns plain success.
notify_result_ok == Ok(0)

\* What dispatch returns for a notification it handled.
notify_result == Err("Success")

\* The NOTIFY arm: the flags of the badge, then the re-sync and the poll.
dispatch_notify(s, msg) ==
    LET is_cq == "CQ" \in msg.bits
        is_sq == "SQ" \in msg.bits
        is_hook == "HOOK" \in msg.bits
        y == IF is_hook THEN handle_notify_sync(s, msg.query)
             ELSE [s |-> s, r |-> Ok(0)]
        s2 == IF is_sq \/ is_cq THEN poll(y.s) ELSE y.s
    IN  [s |-> s2, r |-> notify_result, utcb |-> Utcb("none", Ok(0)),
         events |-> (IF is_hook THEN <<IF y.r.ok THEN "sync" ELSE "sync_err">> ELSE <<>>)
                    \o (IF is_sq \/ is_cq THEN <<"poll">> ELSE <<>>)]

\* dispatch.
dispatch(s, msg) ==
    IF msg.proto = "KERNEL" THEN dispatch_notify(s, msg)
    ELSE LET c ==
             CASE msg.label = "SOCKET" -> handle_call(socket(s, msg.domain, msg.socket_type))
               [] msg.label = "BIND" -> handle_inline(bind(s, msg.badge, msg.addr))
               [] msg.label = "LISTEN" -> handle_call(listen(s, msg.badge, 1))
               [] msg.label = "CONNECT" -> handle_inline(connect(s, msg.badge, msg.addr))
               [] msg.label = "ACCEPT" -> handle_call(accept(s, msg.badge))
               [] msg.label = "CLOSE" -> handle_call(close(s, msg.badge))
               [] msg.label = "SEND" -> handle_inline(send(s, msg.badge, msg.len))
               [] msg.label = "RECV" -> handle_inline(recv(s, msg.badge, RECV_BUF))
               [] msg.label = "SETUP_IOURING" -> handle_call(dispatch_setup_iouring(s, msg))
               [] msg.label = "PROCESS_IOURING" -> handle_call(process_iouring(s, msg.badge))
         IN  [s |-> c.s, r |-> c.r, utcb |-> c.utcb, events |-> <<>>]

\* run's match on dispatch's result: the errors after which nothing is sent.
skips_reply(err) == err \in {"Success", "WouldBlock", "Timeout"}

\* The reply run sends for dispatch's result d, None when it sends none.
reply_of(d) ==
    IF d.r.ok THEN Some(d.utcb)
    ELSE IF skips_reply(d.r.err) THEN None
    ELSE Some(Utcb("err", d.r))

\* The top of an iteration of run's loop, up to the blocking receive: the
\* pending probes, then the poll.  pfail: the failure met by the probes.
loop_top(s, pfail) ==
    LET p == process_pending_probes(s, pfail)
    IN  [s |-> poll(p.s), seen |-> p.seen, tried |-> p.tried,
         queued |-> s.pending_devices,
         events |-> <<IF p.r.ok THEN "probes" ELSE "probes_err", "poll">>]

\* A loop that gives up when its receive fails.
recv_error_ends_loop(s) == [s EXCEPT !.running = FALSE]

\* The branch of a failed receive: the error is logged and the loop continues.
recv_error_continue(s) == s

\* The rest of the iteration after its top t.  rcv: what endpoint.recv
\* gives, a message or an error.
loop_recv(t, rcv) ==
    IF ~rcv.ok
    THEN [s |-> recv_error_continue(t.s), seen |-> t.seen, tried |-> t.tried, queued |-> t.queued,
          dispatched |-> FALSE, r |-> Err(rcv.err),
          reply |-> None, events |-> t.events \o <<"recv_err">>, pre |-> t.s]
    ELSE LET d == dispatch(t.s, rcv.val)
             rep == reply_of(d)
         IN  [s |-> d.s, seen |-> t.seen, tried |-> t.tried, queued |-> t.queued,
              dispatched |-> TRUE, r |-> d.r,
              reply |-> rep,
              events |-> t.events \o <<"recv", "dispatch">> \o d.events
                         \o (IF rep = None THEN <<>> ELSE <<"reply">>),
              pre |-> t.s]

\* One iteration of run's loop.  pfail: the failure met by the pending
\* probes; rcv: what endpoint.recv gives, a message or an error.
loop_iteration(s, pfail, rcv) == loop_recv(loop_top(s, pfail), rcv)

----------------------------------------------------------------------------
(* Inputs of the event loop.                                               *)

\* Badges the clients present: every badge a socket may get, and one more.
BadgeInputs == 0..MaxSockets

\* Byte counts of the data the clients send and the stack delivers.
DataLens == {3000}

\* Sizes the clients give for their urings: a two-page ring, and one as large
\* as the whole ring region.
UringSizes == {5000, SHM_VA - RING_VA}

\* Whether the ring region still has room for the model's optional bumps.
RingBudgetLeft(s) == s.next_ring_vaddr < RING_VA + MaxRingPages * PGSIZE

NetMsg(label, badge) == [proto |-> "NETWORK", label |-> label, badge |-> badge]

BadgeCalls ==
    {NetMsg(l, b) : l \in {"LISTEN", "ACCEPT", "CLOSE", "RECV", "PROCESS_IOURING"},
                    b \in BadgeInputs}

SocketCalls(s) ==
    {[proto |-> "NETWORK", label |-> "SOCKET", badge |-> 0,
      domain |-> d, socket_type |-> t] :
        d \in {"AF_INET", "AF_INET6"}, t \in {"SOCK_STREAM", "SOCK_DGRAM"}}
    \ (IF Len(s.sockets) < MaxSockets THEN {}
       ELSE {[proto |-> "NETWORK", label |-> "SOCKET", badge |-> 0,
              domain |-> "AF_INET", socket_type |-> "SOCK_STREAM"]})

AddrCalls ==
    {[proto |-> "NETWORK", label |-> l, badge |-> b, addr |-> a] :
        l \in {"BIND", "CONNECT"}, b \in BadgeInputs, a \in {<<88>>, <<88, 27>>}}

SendCalls ==
    {[proto |-> "NETWORK", label |-> "SEND", badge |-> b, len |-> n] :
        b \in BadgeInputs, n \in DataLens}

SetupCalls(s) ==
    {m \in [proto : {"NETWORK"}, label : {"SETUP_IOURING"}, badge : BadgeInputs,
             size : UringSizes, has_cap : BOOLEAN,
             fail : {"none", "slot", "move", "mmap"}] :
        /\ m.has_cap \/ m.fail = "none"
        /\ m.badge \notin DOMAIN s.socket_map \/ RingBudgetLeft(s)}

\* The names of a set the device manager lists, in its listing order.
Listing(set) == SelectSeq(Names, LAMBDA n : n \in set)

\* The device manager's answer to a query: the devices it lists, or an error.
QueryAnswers == {Ok(Listing(unicorn)), Err("IpcError")}

\* The answers of a device manager that may list its devices in either
\* order and a device more than once.
Reversed(seq) == [i \in 1..Len(seq) |-> seq[Len(seq) + 1 - i]]

RepeatingAnswers ==
    {Ok(l) : l \in {Listing(unicorn), Reversed(Listing(unicorn)),
                    Listing(unicorn) \o Listing(unicorn),
                    Listing(unicorn) \o Reversed(Listing(unicorn))}}
    \cup {Err("IpcError")}

\* The notifications of a hooked device event under such a device manager.
ResyncOutcomes ==
    {Ok([proto |-> "KERNEL", label |-> "NOTIFY", badge |-> 0, bits |-> {"HOOK"},
         query |-> q]) : q \in RepeatingAnswers}

Notifications ==
    {m \in [proto : {"KERNEL"}, label : {"NOTIFY"}, badge : {0},
             bits : SUBSET {"SQ", "CQ", "HOOK"}, query : QueryAnswers] :
        "HOOK" \in m.bits \/ m.query.ok}

Messages(s) ==
    BadgeCalls \cup SocketCalls(s) \cup AddrCalls \cup SendCalls \cup SetupCalls(s)
    \cup Notifications

\* The errors endpoint.recv may give.
RecvErrors == {Err(e) : e \in {"WouldBlock", "Timeout", "IpcError"}}

\* What endpoint.recv may give: a client's call, a notification or an error.
RecvOutcomes(s) == {Ok(m) : m \in Messages(s)} \cup RecvErrors

\* What endpoint.recv gives while no client calls.
NotifyOutcomes == {Ok(m) : m \in Notifications} \cup RecvErrors

\* The calls that open sockets and move data.
DataCalls(s) ==
    SocketCalls(s) \cup SendCalls
    \cup {NetMsg(l, b) : l \in {"RECV", "ACCEPT"}, b \in BadgeInputs}
    \cup {m \in AddrCalls : m.label = "CONNECT"}

\* What endpoint.recv gives while clients move data.
DataOutcomes(s) == {Ok(m) : m \in DataCalls(s)}

\* The device present when the service boots.
BootDevices == {"eth0"}

\* The requests a client puts on its uring's submission queue.
SqeInputs(user_data) ==
    {[opcode |-> o, len |-> n, user_data |-> user_data] :
        o \in {"READ", "WRITE", "NOP"}, n \in DataLens}

\* The failures the pending probes may meet: those that leave the ring
\* region's bump behind only while the region has room.
ProbeFailInputs(s, names) ==
    {f \in ProbeFails :
        /\ f.at # "none" => Contains(names, f.name)
        /\ f.at \in {"ring", "mmap", "shm"} => RingBudgetLeft(s)}

----------------------------------------------------------------------------
(* Histories.                                                              *)

Count(seq, x) == Cardinality({i \in 1..Len(seq) : seq[i] = x})

\* offered after the hardware ids of seen were offered; 2 stands for "twice
\* or more".
Offer(off, seen) == [h \in HwIds |-> Min(2, off[h] + Count(seen, h))]

\* The fields a call on an unknown badge must leave alone.
SocketFrame(s) == <<s.socket_map, s.sockets, s.uring_servers, s.next_ring_vaddr>>

\* Whether the arm of dispatch for msg gets as far as its facade operation:
\* the SETUP_IOURING arm returns early when moving the frame capability fails.
reaches_facade(msg) ==
    ~(msg.label = "SETUP_IOURING" /\ msg.has_cap /\ msg.fail \in {"slot", "move"})

\* The stack socket behind a badge of the table; a fresh one for a badge the
\* table does not hold.
SockOf(s, badge) ==
    IF badge \in DOMAIN s.socket_map THEN s.sockets[s.socket_map[badge] + 1]
    ELSE NewTcpSocket

\* The field f of a message, d for a message without it.
Field(msg, f, d) == IF f \in DOMAIN msg THEN msg[f] ELSE d

\* The names a sync appended: what pending holds beyond the first n names.
Appended(pending, n) == SubSeq(pending, n + 1, Len(pending))

NoIter ==
    [proto |-> "-", label |-> "-", badge |-> 0, bits |-> {}, dispatched |-> FALSE,
     facade |-> FALSE, res |-> "-", reply |-> None, events |-> <<>>,
     known |-> FALSE, kept |-> TRUE, running_after |-> FALSE,
     phase |-> "idle", queued |-> <<>>, tried |-> <<>>, hooked |-> <<>>,
     addr |-> <<>>, len |-> 0, sock_before |-> NewTcpSocket,
     sock_after |-> NewTcpSocket, listed |-> <<>>]

IterOf(it, rcv) ==
    [proto |-> IF rcv.ok THEN rcv.val.proto ELSE "-",
     label |-> IF rcv.ok THEN rcv.val.label ELSE "-",
     badge |-> IF rcv.ok THEN rcv.val.badge ELSE 0,
     bits |-> IF rcv.ok /\ rcv.val.proto = "KERNEL" THEN rcv.val.bits ELSE {},
     dispatched |-> it.dispatched,
     facade |-> rcv.ok /\ rcv.val.proto = "NETWORK" /\ reaches_facade(rcv.val),
     res |-> IF it.r.ok THEN "Ok" ELSE it.r.err,
     reply |-> it.reply,
     events |-> it.events,
     known |-> rcv.ok /\ rcv.val.badge \in DOMAIN it.pre.socket_map,
     kept |-> SocketFrame(it.s) = SocketFrame(it.pre),
     running_after |-> it.s.running,
     phase |-> "done",
     queued |-> it.queued,
     tried |-> it.tried,
     hooked |-> Appended(it.s.pending_devices, Len(it.pre.pending_devices)),
     addr |-> IF rcv.ok THEN Field(rcv.val, "addr", <<>>) ELSE <<>>,
     len |-> IF rcv.ok THEN Field(rcv.val, "len", 0) ELSE 0,
     sock_before |-> IF rcv.ok THEN SockOf(it.pre, rcv.val.badge) ELSE NewTcpSocket,
     sock_after |-> IF rcv.ok /\ rcv.val.badge \in DOMAIN it.pre.socket_map
                    THEN it.s.sockets[it.pre.socket_map[rcv.val.badge] + 1]
                    ELSE NewTcpSocket,
     listed |-> IF rcv.ok /\ Field(rcv.val, "query", Err("-")).ok
                THEN rcv.val.query.val ELSE <<>>]

\* live after the iteration: a badge socket() returned is live until the next
\* close() on it.
LiveAfter(lv, it, rcv) ==
    IF ~rcv.ok \/ ~it.dispatched THEN lv
    ELSE IF rcv.val.label = "SOCKET" /\ it.r.ok THEN lv \cup {it.reply[1].mr0.val}
    ELSE IF rcv.val.label = "CLOSE" THEN lv \ {rcv.val.badge}
    ELSE lv

\* life after the iteration: the badges socket() returned so far, in the
\* order of the calls, and those of them close() was called on.
LifeAfter(lf, it, rcv) ==
    IF ~rcv.ok \/ ~it.dispatched THEN lf
    ELSE IF rcv.val.label = "SOCKET" /\ it.r.ok
    THEN [lf EXCEPT !.issued = Append(@, it.reply[1].mr0.val)]
    ELSE IF rcv.val.label = "CLOSE" /\ it.r.ok
                                   /\ \E k \in 1..Len(lf.issued) : lf.issued[k] = rcv.val.badge
    THEN [lf EXCEPT !.closed = @ \cup {rcv.val.badge}]
    ELSE lf

\* The history of one uring: requests submitted so far, the user_data of the
\* requests process_iouring took, and of the completions it queued.
NewUringLog == [taken |-> <<>>, posted |-> <<>>]

UserDataOf(entries) == [i \in 1..Len(entries) |-> entries[i].user_data]

----------------------------------------------------------------------------
(* Actions of the server.                                                  *)

\* main calls listen().
Listen ==
    /\ ~life.listened
    /\ ~life.run
    /\ server' = listen_endpoint(server)
    /\ life' = [life EXCEPT !.listened = TRUE]
    /\ UNCHANGED <<unicorn, iter, live, offered, uring_log, uring_ops>>
    /\ UNCHANGED devvars

\* init(), network.json being one of cfgs.
InitBody(cfgs) ==
    /\ life.init = "none"
    /\ ~life.run
    /\ \E cfg \in cfgs, fail \in InitFails, query \in QueryAnswers,
          register_ok \in BOOLEAN :
          \E pfail \in ProbeFailInputs(server, IF query.ok THEN query.val ELSE <<>>) :
          \E i \in {init(server, cfg, fail, query, pfail)} :
              /\ server' = i.s
              /\ life' = [life EXCEPT !.init = IF i.r.ok THEN "ok" ELSE "err",
                                      !.cfg = cfg.kind,
                                      !.registered = register_ok,
                                      !.query_ok = query.ok,
                                      !.probes_ok = pfail.at = "none",
                                      !.fail = fail]
              /\ offered' = Offer(offered, i.seen)
    /\ UNCHANGED <<unicorn, iter, live, uring_log, uring_ops>>
    /\ UNCHANGED devvars

\* main calls init(), after listen().
InitOn(cfgs) == life.listened /\ InitBody(cfgs)

Init_ == InitOn(ConfigOutcomes)

\* init() on a server listen() was not called on.
InitUnlistened == ~life.listened /\ InitBody(ConfigOutcomes)

\* init() over every content of network.json.
InitAnyConfig == InitOn(AllConfigOutcomes)

\* init() over the values of buffer_size.
InitAnyPool == InitOn(PoolConfigOutcomes)

\* run(): the service is reported running and the loop starts.
RunBody ==
    /\ ~life.run
    /\ \E report_ok \in BOOLEAN :
          /\ server' = [server EXCEPT !.running = report_ok]
          /\ life' = [life EXCEPT !.run = TRUE, !.cfg = "-", !.registered = FALSE,
                                  !.query_ok = FALSE, !.probes_ok = FALSE,
                                  !.ret = IF report_ok THEN "-" ELSE "Err",
                                  !.fail = "-"]
    /\ UNCHANGED <<unicorn, iter, live, offered, uring_log, uring_ops>>
    /\ UNCHANGED devvars

\* main calls run(), after listen() and a successful init().
Run == life.init = "ok" /\ RunBody

\* run() on a server listen() was not called on.
RunUnlistened == ~life.listened /\ RunBody

\* One iteration of the event loop, up to its reply, on one of the outcomes
\* rcvs of endpoint.recv.
LoopOn(rcvs) ==
    /\ server.running
    /\ iter = NoIter
    /\ \E pfail \in ProbeFailInputs(server, server.pending_devices), rcv \in rcvs :
          \E it \in {loop_iteration(server, pfail, rcv)} :
              /\ server' = it.s
              /\ iter' = IterOf(it, rcv)
              /\ live' = LiveAfter(live, it, rcv)
              /\ life' = LifeAfter(life, it, rcv)
              /\ offered' = Offer(offered, it.seen)
    /\ UNCHANGED <<unicorn, uring_log, uring_ops>>
    /\ UNCHANGED devvars

\* An iteration of the loop while clients call.
LoopIter == LoopOn(RecvOutcomes(server))

\* An iteration of the loop while no client calls.
LoopNotify == LoopOn(NotifyOutcomes)

\* The loop goes back to its top: the next iteration starts on a cleared UTCB.
LoopEnd ==
    /\ iter # NoIter
    /\ iter' = NoIter
    /\ UNCHANGED <<server, unicorn, life, live, offered, uring_log, uring_ops>>
    /\ UNCHANGED devvars

\* The top of an iteration, which ends blocked in the receive.
LoopTop ==
    /\ server.running
    /\ iter.phase # "top"
    /\ \E pfail \in ProbeFailInputs(server, server.pending_devices) :
          \E t \in {loop_top(server, pfail)} :
              /\ server' = t.s
              /\ iter' = [NoIter EXCEPT !.phase = "top", !.events = t.events,
                                        !.queued = t.queued, !.tried = t.tried,
                                        !.hooked = iter.hooked]
              /\ offered' = Offer(offered, t.seen)
    /\ UNCHANGED <<unicorn, life, live, uring_log, uring_ops>>
    /\ UNCHANGED devvars

\* A notification ends the receive: the rest of the iteration.
LoopRecv ==
    /\ iter.phase = "top"
    /\ \E rcv \in NotifyOutcomes :
          \E it \in {loop_recv([s |-> server, seen |-> <<>>, tried |-> iter.tried,
                                 queued |-> iter.queued, events |-> iter.events],
                                rcv)} :
              /\ server' = it.s
              /\ iter' = IterOf(it, rcv)
              /\ live' = LiveAfter(live, it, rcv)
    /\ UNCHANGED <<unicorn, life, offered, uring_log, uring_ops>>
    /\ UNCHANGED devvars

\* An iteration of the loop on a device event.
LoopResync == LoopOn(ResyncOutcomes)

\* An iteration of the loop whose receive fails.
LoopDeaf == LoopOn(RecvErrors)

\* An iteration of the loop on a call that opens a socket or moves data.
LoopData == LoopOn(DataOutcomes(server))

\* stop(), on the running loop between two iterations, and again after that.
Stop ==
    /\ server.running \/ life.stops >= 1
    /\ life.stops < MaxStops
    /\ iter = NoIter
    /\ server' = stop(server)
    /\ life' = [life EXCEPT !.stops = @ + 1]
    /\ UNCHANGED <<unicorn, iter, live, offered, uring_log, uring_ops>>
    /\ UNCHANGED devvars

\* The loop condition fails at the top of the loop: run() returns Ok.
RunReturn ==
    /\ life.run
    /\ life.ret = "-"
    /\ ~server.running
    /\ iter = NoIter
    /\ life' = [life EXCEPT !.ret = "Ok"]
    /\ UNCHANGED <<server, unicorn, iter, live, offered, uring_log, uring_ops>>
    /\ UNCHANGED devvars

\* The device manager discovers a Net device.
DevArrive ==
    /\ iter = NoIter
    /\ \E n \in NameSet \ unicorn : unicorn' = unicorn \cup {n}
    /\ UNCHANGED <<server, life, iter, live, offered, uring_log, uring_ops>>
    /\ UNCHANGED devvars

\* The device manager discovers a Net device at any time, the loop blocked in
\* its receive or not.
DevAppear ==
    /\ \E n \in NameSet \ unicorn : unicorn' = unicorn \cup {n}
    /\ UNCHANGED <<server, life, iter, live, offered, uring_log, uring_ops>>
    /\ UNCHANGED devvars

\* The device manager lists a device before the service starts.
DevBoot ==
    /\ ~life.listened
    /\ unicorn = {}
    /\ \E n \in BootDevices : unicorn' = {n}
    /\ UNCHANGED <<server, life, iter, live, offered, uring_log, uring_ops>>
    /\ UNCHANGED devvars

SrvInit ==
    /\ server = NewServer
    /\ unicorn = {}
    /\ life = [listened |-> FALSE, init |-> "none", run |-> FALSE, cfg |-> "-",
               registered |-> FALSE, query_ok |-> FALSE, probes_ok |-> FALSE,
               stops |-> 0, ret |-> "-", fail |-> "-",
               issued |-> <<>>, closed |-> {}]
    /\ iter = NoIter
    /\ live = {}
    /\ offered = [h \in HwIds |-> 0]
    /\ uring_log = EmptyMap
    /\ uring_ops = 0

----------------------------------------------------------------------------
(* Actions on the socket facade: a client's calls, its moves on the shared *)
(* rings, and the stack's moves on the sockets.                            *)

\* socket(AF_INET, SOCK_STREAM, 0).
CallSocket ==
    /\ Len(server.sockets) < MaxSockets
    /\ server' = socket(server, "AF_INET", "SOCK_STREAM").s
    /\ UNCHANGED <<unicorn, life, iter, live, offered, uring_log, uring_ops>>
    /\ UNCHANGED devvars

\* close() on a badge.
CallClose ==
    /\ \E b \in BadgeInputs : server' = close(server, b).s
    /\ server' # server
    /\ UNCHANGED <<unicorn, life, iter, live, offered, uring_log, uring_ops>>
    /\ UNCHANGED devvars

\* setup_iouring() on a badge: the ring is attached and its history starts.
CallSetupIouring ==
    /\ RingBudgetLeft(server)
    /\ \E b \in BadgeInputs, size \in UringSizes :
          \E c \in {setup_iouring(server, b, size, FALSE, TRUE)} :
              /\ c.r.ok
              /\ server' = c.s
              /\ uring_log' = MapInsert(uring_log, b, NewUringLog)
    /\ UNCHANGED <<unicorn, life, iter, live, offered, uring_ops>>
    /\ UNCHANGED devvars

\* The client puts one request on the submission queue of its ring; the
\* request's user_data is its number among the run's submissions.
ClientSubmit ==
    /\ uring_ops < MaxUringOps
    /\ \E b \in DOMAIN server.uring_servers :
          /\ Len(server.uring_servers[b].sq) < UringEntries
          /\ \E sqe \in SqeInputs(uring_ops + 1) :
                server' = [server EXCEPT !.uring_servers[b].sq = Append(@, sqe)]
    /\ uring_ops' = uring_ops + 1
    /\ UNCHANGED <<unicorn, life, iter, live, offered, uring_log>>
    /\ UNCHANGED devvars

\* process_iouring() on a badge.
CallProcessIouring ==
    /\ \E b \in DOMAIN server.uring_servers :
          \E c \in {process_iouring(server, b)} :
          LET before == server.uring_servers[b]
              after == c.s.uring_servers[b]
          IN  /\ before.sq # <<>>
              /\ server' = c.s
              /\ uring_log' =
                    [uring_log EXCEPT
                        ![b].taken = @ \o UserDataOf(before.sq),
                        ![b].posted = @ \o UserDataOf(SubSeq(after.cq, Len(before.cq) + 1,
                                                             Len(after.cq)))]
    /\ UNCHANGED <<unicorn, life, iter, live, offered, uring_ops>>
    /\ UNCHANGED devvars

\* The client takes the completion at the head of its completion queue.
ClientReap ==
    /\ \E b \in DOMAIN server.uring_servers :
          /\ server.uring_servers[b].cq # <<>>
          /\ server' = [server EXCEPT !.uring_servers[b].cq = Tail(@)]
    /\ UNCHANGED <<unicorn, life, iter, live, offered, uring_log, uring_ops>>
    /\ UNCHANGED devvars

\* The stack connects a socket to its peer.
StackEstablish ==
    /\ \E i \in 1..Len(server.sockets) :
          /\ server.sockets[i].state = "Closed"
          /\ server' = [server EXCEPT !.sockets[i].state = "Established"]
    /\ UNCHANGED <<unicorn, life, iter, live, offered, uring_log, uring_ops>>
    /\ UNCHANGED devvars

\* The stack delivers the peer's data to an established socket.
StackDeliver ==
    /\ \E i \in 1..Len(server.sockets), n \in DataLens :
          /\ server.sockets[i].state = "Established"
          /\ server.sockets[i].rx = 0
          /\ server' = [server EXCEPT !.sockets[i].rx = n]
    /\ UNCHANGED <<unicorn, life, iter, live, offered, uring_log, uring_ops>>
    /\ UNCHANGED devvars

\* The stack carries the bytes of the TX buffer of one socket of a connected
\* pair over loopback to the RX buffer of the other, once that one is empty.
StackTransfer ==
    /\ \E i, j \in 1..Len(server.sockets) :
          /\ i # j
          /\ server.sockets[i].state = "Established"
          /\ server.sockets[j].state = "Established"
          /\ server.sockets[j].rx = 0
          /\ \E n \in {Min(server.sockets[i].tx, SOCK_BUF - server.sockets[j].rx)} :
                /\ n > 0
                /\ server' = [server EXCEPT !.sockets[i].tx = @ - n,
                                            !.sockets[j].rx = @ + n]
    /\ UNCHANGED <<unicorn, life, iter, live, offered, uring_log, uring_ops>>
    /\ UNCHANGED devvars

----------------------------------------------------------------------------
(* Actions of the device adapter.                                          *)

\* The stack calls receive() on device d.
Receive(d) ==
    /\ dev_ops < MaxDevOps
    /\ \E consume \in BOOLEAN :
        LET r == receive(netdev[d], consume)
        IN  /\ netdev' = [netdev EXCEPT ![d] = r.dev]
            /\ rx_token' = [rx_token EXCEPT ![d] = r.token]
            /\ dev_ops' = dev_ops + 1
            /\ UNCHANGED shm_write
            /\ UNCHANGED srvvars

\* The stack calls transmit() on device d and consumes the token with a
\* frame of len bytes.
Transmit(d, len) ==
    LET reg == tx_region(netdev[d], len)
    IN  /\ dev_ops < MaxDevOps
        /\ dev_ops' = dev_ops + 1
        /\ shm_write' = [dev |-> d, pool |-> reg.pool, off |-> reg.off,
                         len |-> reg.len,
                         rx_busy |-> IF reg.pool
                                     THEN RxBusy(netdev, reg.off, reg.len)
                                     ELSE {}]
        /\ netdev' = [netdev EXCEPT ![d] = send_packet(@, len)]
        /\ UNCHANGED rx_token
        /\ UNCHANGED srvvars

\* The driver of device d completes the request at the head of its
\* submission queue.
DriverComplete(d) ==
    /\ netdev[d].sq # <<>>
    /\ Len(netdev[d].cq) < RING_ENTRIES
    /\ \E res \in DriverResults(Head(netdev[d].sq)) :
          netdev' = [netdev EXCEPT
                        ![d].sq = Tail(@),
                        ![d].cq = Append(@, [user_data |-> Head(netdev[d].sq).user_data,
                                             res |-> res])]
    /\ UNCHANGED <<shm_write, rx_token, dev_ops>>
    /\ UNCHANGED srvvars

DevInit ==
    /\ dev_ops = 0
    /\ netdev = [d \in Devices |-> NewDevice]
    /\ shm_write = [dev |-> 0, pool |-> FALSE, off |-> 0, len |-> 0, rx_busy |-> {}]
    /\ rx_token = [d \in Devices |-> None]

DevNext ==
    \/ \E d \in Devices : Receive(d)
    \/ \E d \in Devices, len \in FrameLens : Transmit(d, len)
    \/ \E d \in Devices : DriverComplete(d)

----------------------------------------------------------------------------
(* Specifications.                                                         *)

Init == DevInit /\ SrvInit

\* The server under its clients: its life cycle as main drives it and the
\* event loop on every message, with the device listed at boot.
Next ==
    \/ DevBoot
    \/ Listen
    \/ Init_
    \/ Run
    \/ LoopIter
    \/ LoopEnd
    \/ Stop
    \/ RunReturn

Spec == Init /\ [][Next]_vars

\* The probe pipeline: the life cycle and the loop on notifications, with
\* devices arriving at any time.
NextProbe ==
    \/ DevArrive
    \/ Listen
    \/ Init_
    \/ Run
    \/ LoopNotify
    \/ LoopEnd
    \/ Stop

SpecProbe == Init /\ [][NextProbe]_vars

\* The device events alone: the life cycle and the loop on HOOK
\* notifications, under a device manager that may repeat a device.
NextSync ==
    \/ DevArrive
    \/ Listen
    \/ Init_
    \/ Run
    \/ LoopResync
    \/ LoopEnd

SpecSync == Init /\ [][NextSync]_vars

\* The loop in its two steps, the top that ends blocked in the receive and
\* the rest that a notification starts, with devices appearing at any time.
NextStep ==
    \/ DevAppear
    \/ Listen
    \/ Init_
    \/ Run
    \/ LoopTop
    \/ LoopRecv

SpecStep == Init /\ [][NextStep]_vars

\* The boot over every content of network.json: the devices the device
\* manager lists when init() runs are probed by init().
NextConf ==
    \/ DevAppear
    \/ Listen
    \/ InitAnyConfig

SpecConf == Init /\ [][NextConf]_vars

\* The boot over the values of buffer_size.
NextPool ==
    \/ DevAppear
    \/ Listen
    \/ InitAnyPool

SpecPool == Init /\ [][NextPool]_vars

\* The loop on the calls that open sockets and move data, with the stack
\* connecting the sockets and carrying their bytes over loopback.
NextData ==
    \/ Listen
    \/ Init_
    \/ Run
    \/ LoopData
    \/ LoopEnd
    \/ StackEstablish
    \/ StackTransfer

SpecData == Init /\ [][NextData]_vars

\* The server used without listen(): init() and run() on the null endpoint,
\* whose receive only fails.
NextUnlistened ==
    \/ DevAppear
    \/ InitUnlistened
    \/ RunUnlistened
    \/ LoopDeaf
    \/ LoopEnd
    \/ Stop

SpecUnlistened == Init /\ [][NextUnlistened]_vars

\* The loop on the data calls until stop() ends it and run() returns.
NextStop ==
    \/ Listen
    \/ Init_
    \/ Run
    \/ LoopData
    \/ LoopEnd
    \/ Stop
    \/ RunReturn

SpecStop == Init /\ [][NextStop]_vars

\* The same, the loop going on to test its condition.
SpecStopFair == SpecStop /\ WF_vars(LoopEnd) /\ WF_vars(RunReturn)

\* The socket facade under a client's calls, with the client's and the
\* stack's moves.
NextSock ==
    \/ CallSocket
    \/ CallClose
    \/ CallSetupIouring
    \/ ClientSubmit
    \/ CallProcessIouring
    \/ ClientReap
    \/ StackEstablish
    \/ StackDeliver

SpecSock == Init /\ [][NextSock]_vars

\* The device adapter under the stack's calls and the drivers' completions.
SpecDev == Init /\ [][DevNext]_vars

----------------------------------------------------------------------------
(* Properties of the device adapter.                                       *)

\* C1: for every real net device, in every reachable state, the number of
\* READ submissions handed to the driver and not yet completed is at most 1.
C1_AtMostOneRxInFlight ==
    \A d \in Devices : OutstandingReads(netdev[d]) <= 1

\* Two devices of the shared pool whose drivers hold overlapping RX buffers.
RxBuffersOverlap ==
    \E d1, d2 \in Devices :
        /\ d1 # d2
        /\ \E i \in 1..Len(netdev[d1].sq), j \in 1..Len(netdev[d2].sq) :
              /\ netdev[d1].sq[i].op = "READ"
              /\ netdev[d2].sq[j].op = "READ"
              /\ netdev[d1].sq[i].off < netdev[d2].sq[j].off + netdev[d2].sq[j].len
              /\ netdev[d2].sq[j].off < netdev[d1].sq[i].off + netdev[d1].sq[i].len

\* C10: while a READ on a region of the pool is with a driver, the service
\* never writes into that region (no transmit on the same or on another
\* device of the pool does), and no other device submits the same bytes.
C10_PendingRxBufferUntouched ==
    /\ shm_write.rx_busy = {}
    /\ ~RxBuffersOverlap

----------------------------------------------------------------------------
(* Properties of the event loop and the dispatcher.                        *)

\* C2: every NETWORK call the event loop receives gets a reply in the same
\* iteration; when the operation failed, the reply carries the error tag and
\* the error code in register 0.
C2_EveryCallReplied ==
    (iter.dispatched /\ iter.proto = "NETWORK") =>
        /\ iter.reply # None
        /\ iter.res # "Ok" =>
              /\ iter.reply[1].tag = "err"
              /\ iter.reply[1].mr0.err = iter.res

\* C3: a (KERNEL, NOTIFY) message never causes a reply, whatever its badge
\* bits and whether or not the re-sync it triggers fails, and the loop keeps
\* running after it.
C3_NotifyNeverReplied ==
    (iter.dispatched /\ iter.proto = "KERNEL") =>
        /\ iter.reply = None
        /\ ~Contains(iter.events, "reply")
        /\ iter.running_after

\* A notification with all its bits set whose re-sync failed, then polled.
C3_Witness ==
    /\ iter.dispatched
    /\ iter.proto = "KERNEL"
    /\ iter.bits = {"SQ", "CQ", "HOOK"}
    /\ Contains(iter.events, "sync_err")
    /\ Contains(iter.events, "poll")
    /\ server.running

----------------------------------------------------------------------------
(* Properties of the socket table.                                         *)

\* C4: every badge a successful socket() returned is in the socket table
\* until the next close() on it, whatever happens in between.
C4_LiveBadgeInTable == live \subseteq DOMAIN server.socket_map

\* A badge still live right after a close() of another badge of the table.
C4_Witness ==
    /\ live # {}
    /\ iter.dispatched
    /\ iter.label = "CLOSE"
    /\ iter.known
    /\ iter.badge \notin live

\* C5: send, recv, bind, listen and setup_iouring on a badge that is not in
\* the socket table return NotFound and leave the socket table, the stack
\* sockets, the uring-server table and the ring-VA bump pointer unchanged.
C5_UnknownBadgeNotFound ==
    (/\ iter.dispatched
     /\ iter.facade
     /\ iter.label \in {"SEND", "RECV", "BIND", "LISTEN", "SETUP_IOURING"}
     /\ ~iter.known) =>
        /\ iter.res = "NotFound"
        /\ iter.kept

\* setup_iouring on a badge that was issued and closed.
C5_Witness ==
    /\ iter.dispatched
    /\ iter.facade
    /\ iter.label = "SETUP_IOURING"
    /\ ~iter.known
    /\ iter.badge < Len(server.sockets)
    /\ iter.res = "NotFound"

\* C6: close() destroys the socket: the stack-level socket is freed from the
\* shared socket set, so the number of sockets in the stack equals the number
\* of badges in the socket table.
C6_CloseFreesStackSocket ==
    Cardinality(StackSockets(server)) = Cardinality(DOMAIN server.socket_map)

----------------------------------------------------------------------------
(* Properties of the probe pipeline and of init.                           *)

\* Interfaces of the list made for the hardware id h.
InterfacesOf(h) ==
    {i \in 1..Len(server.interfaces) :
        server.interfaces[i].kind = "Net" /\ server.interfaces[i].hw = h}

\* C7 as stated: a hardware id offered for probing two or more times has
\* exactly one interface in the interface list.
C7_ExactlyOneInterface ==
    \A h \in HwIds : offered[h] >= 2 => Cardinality(InterfacesOf(h)) = 1

\* C7: a hardware id offered for probing two or more times has at most one
\* interface in the interface list: exactly one when a probe of it succeeded
\* (the id is among the probed hardware), none when every probe of it failed.
C7_AtMostOneInterface ==
    \A h \in HwIds :
        offered[h] >= 2 =>
            Cardinality(InterfacesOf(h)) = IF h \in server.probed_hardware THEN 1 ELSE 0

\* Two names of one hardware id, both listed, offered at least twice, probed.
C7_Witness ==
    /\ {"eth0", "net0"} \subseteq unicorn
    /\ offered[HwOf("eth0")] >= 2
    /\ Cardinality(InterfacesOf(HwOf("eth0"))) = 1
    /\ server.pending_devices = <<>>

\* The interface list holds the loopback interface with 127.0.0.1/8.
HasLoopback ==
    \E i \in 1..Len(server.interfaces) :
        /\ server.interfaces[i].kind = "Loopback"
        /\ Contains(server.interfaces[i].ip_addrs,
                    [addr |-> <<127, 0, 0, 1>>, prefix |-> 8])

\* C8: whenever init() returned success the interface list contains the
\* loopback interface with address 127.0.0.1/8, whatever network.json, the
\* registration, the initial query and the initial probes did.
C8_LoopbackAfterInit == life.init = "ok" => HasLoopback

\* init() returned success on a malformed network.json, with the
\* registration refused and an initial probe failed; run() has not started.
C8_Witness ==
    /\ life.init = "ok"
    /\ ~life.run
    /\ life.cfg = "malformed"
    /\ ~life.registered
    /\ life.query_ok
    /\ ~life.probes_ok
    /\ HasLoopback

----------------------------------------------------------------------------
(* Properties of the per-socket urings.                                    *)

\* C9: on every registered uring the completions process_iouring queued are
\* the requests it took, one completion for each request and in their order,
\* each with the user_data of its request: none is lost, none duplicated.
C9_EveryRequestCompleted ==
    \A b \in DOMAIN uring_log : uring_log[b].posted = uring_log[b].taken


----------------------------------------------------------------------------
(* Properties of the probe queue.                                          *)

\* The names the last iteration left waiting: those queued at its start that
\* its probe pass did not take.
LeftWaiting == Appended(iter.queued, Len(iter.tried))

\* Whether p is an initial segment of q.
IsPrefix(p, q) == Len(p) <= Len(q) /\ p = SubSeq(q, 1, Len(p))

\* C11: names are probed in the order sync_devices queued them, whatever the
\* interleaving of syncs and probe passes: a probe pass takes the names it
\* probes from the front of the queue, in queue order, and the names a sync
\* adds go behind every name still waiting.
C11_ProbedInQueueOrder ==
    iter.phase = "done" =>
        /\ IsPrefix(iter.tried, iter.queued)
        /\ IsPrefix(LeftWaiting, server.pending_devices)

\* A probe pass stopped at its first name and left a name waiting, and the
\* HOOK sync of the same iteration queued further names.
C11_Witness ==
    /\ iter.phase = "done"
    /\ Len(iter.tried) = 1
    /\ Len(LeftWaiting) >= 1
    /\ Len(iter.hooked) >= 1
    /\ Len(server.pending_devices) > Len(LeftWaiting)



----------------------------------------------------------------------------
(* Properties of hot plug and of the configuration of a probed interface.  *)

\* The entry of network.json for the interface name n, None without one.
EntryOf(n) ==
    IF server.config = None THEN None
    ELSE find_iface_config(server.config[1].interfaces, n)

\* The address network.json gives the interface name n: that of its entry,
\* 10.0.2.15/24 without a usable entry.
AddressFor(n) ==
    IF EntryOf(n) # None /\ ParseIpv4(EntryOf(n)[1].ipv4).ok
    THEN [addr |-> ParseIpv4(EntryOf(n)[1].ipv4).val, prefix |-> EntryOf(n)[1].mask]
    ELSE [addr |-> <<10, 0, 2, 15>>, prefix |-> 24]

\* Real devices of the interface list.
NetInterfaces == {i \in 1..Len(server.interfaces) : server.interfaces[i].kind = "Net"}

\* The names of a sequence.
Range(seq) == {seq[i] : i \in 1..Len(seq)}

\* C12: a device the device manager listed when a HOOK notification was
\* dispatched is in the interface list, with its configured address, once the
\* loop is blocked in its next receive, provided the probe pass at the top of
\* that iteration succeeded: no further message is needed.
C12_HookedDeviceProbedBeforeNextRecv ==
    (iter.phase = "top" /\ iter.events[1] = "probes") =>
        \A n \in Range(iter.hooked) :
            \E i \in NetInterfaces :
                /\ server.interfaces[i].hw = HwOf(n)
                /\ server.interfaces[i].name = n =>
                       server.interfaces[i].ip_addrs = <<AddressFor(n)>>

\* The service ran without a real device and with nothing queued; a HOOK
\* made it queue eth0, and the loop, blocked in its next receive, has eth0
\* in the interface list.
C12_Witness ==
    /\ iter.phase = "top"
    /\ iter.events[1] = "probes"
    /\ iter.hooked = <<"eth0">>
    /\ iter.queued = <<"eth0">>
    /\ iter.tried = <<"eth0">>
    /\ \E i \in NetInterfaces :
          /\ server.interfaces[i].name = "eth0"
          /\ server.interfaces[i].ip_addrs = <<AddressFor("eth0")>>
    /\ Cardinality(NetInterfaces) = 1


\* Whether the entry of network.json for n has an address that parses.
UsableEntry(n) == EntryOf(n) # None /\ ParseIpv4(EntryOf(n)[1].ipv4).ok

\* The vias of the global routes of network.json that are default routes.
GlobalDefaults ==
    IF server.config = None THEN <<>>
    ELSE LET dflt == SelectSeq(server.config[1].routes,
                               LAMBDA r : /\ ParseIpv4(r.dest) = Ok(<<0, 0, 0, 0>>)
                                          /\ ParseIpv4(r.via).ok
                                          /\ r.mask = 0)
         IN  [i \in 1..Len(dflt) |-> ParseIpv4(dflt[i].via).val]

\* The gateway of the entry for n, None without one that parses.
GatewayOf(n) ==
    IF EntryOf(n)[1].gateway # None /\ ParseIpv4(EntryOf(n)[1].gateway[1]).ok
    THEN Some(ParseIpv4(EntryOf(n)[1].gateway[1]).val)
    ELSE None

\* C13 as stated: a probed interface n with an entry in network.json has
\* exactly that entry's address and prefix and, when the entry has a gateway,
\* that gateway as its default route; without an entry it has 10.0.2.15/24
\* and the default route 10.0.2.2; in both cases it has exactly one address.
C13_EntryElseFallback ==
    \A i \in NetInterfaces :
        LET ifc == server.interfaces[i]
            e == EntryOf(ifc.name)
        IN  /\ Len(ifc.ip_addrs) = 1
            /\ e # None =>
                   /\ ParseIpv4(e[1].ipv4).ok
                   /\ ifc.ip_addrs[1] = [addr |-> ParseIpv4(e[1].ipv4).val,
                                         prefix |-> e[1].mask]
                   /\ e[1].gateway # None =>
                          ifc.default_route = Some(ParseIpv4(e[1].gateway[1]).val)
            /\ e = None =>
                   /\ ifc.ip_addrs[1] = [addr |-> <<10, 0, 2, 15>>, prefix |-> 24]
                   /\ ifc.default_route = Some(<<10, 0, 2, 2>>)

\* C13: a probed interface n has exactly one address.  With an entry in
\* network.json whose address parses it has that entry's address and prefix,
\* and its default route is the last global 0.0.0.0/0 route of network.json
\* when there is one, else the entry's gateway when it has one that parses,
\* else none.  Without such an entry it has 10.0.2.15/24 and the default
\* route 10.0.2.2, whatever the global routes.
C13_EntryThenGlobalRoutes ==
    \A i \in NetInterfaces :
        LET ifc == server.interfaces[i]
            n == ifc.name
        IN  /\ ifc.ip_addrs = <<AddressFor(n)>>
            /\ ifc.default_route =
                   IF ~UsableEntry(n) THEN Some(<<10, 0, 2, 2>>)
                   ELSE IF GlobalDefaults # <<>>
                   THEN Some(GlobalDefaults[Len(GlobalDefaults)])
                   ELSE GatewayOf(n)

\* eth0 was probed under a network.json whose entry for eth0 has a gateway
\* and which has a global default route through another address.
C13_Witness ==
    /\ server.config = Some(ConfigA)
    /\ \E i \in NetInterfaces :
          /\ server.interfaces[i].name = "eth0"
          /\ server.interfaces[i].ip_addrs =
                 <<[addr |-> <<192, 168, 1, 5>>, prefix |-> 16]>>
          /\ server.interfaces[i].default_route = Some(<<192, 168, 1, 9>>)


----------------------------------------------------------------------------
(* Properties of the socket calls.                                         *)

\* C14: the badge a successful socket(AF_INET, SOCK_STREAM, 0) replies with
\* is at least 1, the first one included.
C14_BadgeAtLeastOne ==
    (iter.label = "SOCKET" /\ iter.res = "Ok") => iter.reply[1].mr0.val >= 1


\* C15: on a connected pair over loopback, send(x) followed by recv on the
\* peer returns exactly the bytes of x for every |x| <= 4096: a RECV on a
\* socket whose RX buffer holds the bytes of one x its peer sent, and nothing
\* else, replies with |x| bytes.
C15_RecvReturnsWhatWasSent ==
    (iter.label = "RECV" /\ iter.res = "Ok" /\ iter.sock_before.rx \in DataLens) =>
        iter.reply[1].mr0.val = iter.sock_before.rx



\* C17: bind(addr) on a known badge with fewer than two address bytes fails
\* with InvalidArgs and leaves the socket as it was; with two or more it
\* puts the socket into LISTEN on the port its first two bytes give, or
\* fails with InternalError when the stack refuses.
C17_BindListensOnPort ==
    (iter.label = "BIND" /\ iter.known) =>
        IF Len(iter.addr) < 2
        THEN iter.res = "InvalidArgs" /\ iter.sock_after = iter.sock_before
        ELSE \/ iter.res = "Ok" /\ iter.sock_after.state = "Listen"
             \/ iter.res = "InternalError"



\* The bytes the last reply carries.
Replied == iter.reply[1].mr0.val

\* C20: send on a known badge returns WouldBlock and leaves the TX buffer
\* alone when the stack socket may not send; otherwise it queues a prefix of
\* the data and returns its length n, 0 <= n <= min(|data|, free TX space),
\* the TX buffer never above 4096 bytes; a failure of the stack is reported
\* as Io.  recv likewise: WouldBlock when the socket may not receive,
\* otherwise the bytes taken from the RX buffer, Io on a failure of the stack.
C20_SendRecvContract ==
    /\ (iter.label = "SEND" /\ iter.known) =>
          \/ /\ ~may_send(iter.sock_before)
             /\ iter.res = "WouldBlock"
             /\ iter.sock_after = iter.sock_before
          \/ /\ may_send(iter.sock_before)
             /\ iter.res = "Ok"
             /\ Replied >= 0
             /\ Replied <= Min(iter.len, SOCK_BUF - iter.sock_before.tx)
             /\ iter.sock_after = [iter.sock_before EXCEPT !.tx = @ + Replied]
             /\ iter.sock_after.tx <= SOCK_BUF
          \/ iter.res = "Io"
    /\ (iter.label = "RECV" /\ iter.known) =>
          \/ /\ iter.sock_before.state # "Established"
             /\ iter.res = "WouldBlock"
             /\ iter.sock_after = iter.sock_before
          \/ /\ iter.sock_before.state = "Established"
             /\ iter.res = "Ok"
             /\ Replied >= 0
             /\ Replied <= Min(RECV_BUF, iter.sock_before.rx)
             /\ iter.sock_after = [iter.sock_before EXCEPT !.rx = @ - Replied]
          \/ iter.res = "Io"

----------------------------------------------------------------------------
(* Properties of the address regions.                                      *)

\* The address ranges of the registered urings: base and page-aligned size.
RingRange(b) ==
    [base |-> server.uring_servers[b].addr,
     size |-> align_up(server.uring_servers[b].size, PGSIZE)]

\* C18: every range handed out from the ring bump pointer is page-aligned,
\* disjoint from the others and entirely below the SHM base, for any size a
\* client gives; the packet pool lies at or above the SHM base.
C18_RingRangesBelowShm ==
    /\ \A b \in DOMAIN server.uring_servers :
          /\ RingRange(b).base % PGSIZE = 0
          /\ RingRange(b).base >= RING_VA
          /\ RingRange(b).base + RingRange(b).size <= SHM_VA
    /\ \A b1, b2 \in DOMAIN server.uring_servers :
          b1 # b2 =>
              \/ RingRange(b1).base + RingRange(b1).size <= RingRange(b2).base
              \/ RingRange(b2).base + RingRange(b2).size <= RingRange(b1).base
    /\ server.next_ring_vaddr % PGSIZE = 0
    /\ server.next_ring_vaddr <= SHM_VA
    /\ server.shm_frame # None =>
          /\ server.shm_frame[1].vaddr % PGSIZE = 0
          /\ server.shm_frame[1].vaddr >= SHM_VA


\* The pool is as init() left it: none before init(), and afterwards one
\* pool at the SHM base with the bump pointer just behind it, or none when
\* init() failed before it had one.
PoolAsAllocated ==
    /\ life.init = "none" => server.shm_frame = None /\ server.next_shm_vaddr = SHM_VA
    /\ life.init = "ok" => server.shm_frame # None
    /\ server.shm_frame # None =>
          /\ server.shm_frame[1].vaddr = SHM_VA
          /\ server.next_shm_vaddr = SHM_VA + server.shm_frame[1].size

\* Every real device is registered with the global pool, the loopback
\* device with none.
DevicesShareThePool ==
    \A i \in 1..Len(server.interfaces) :
        IF server.interfaces[i].kind = "Net"
        THEN /\ server.interfaces[i].pool # None
             /\ server.interfaces[i].pool = server.shm_frame
        ELSE /\ server.interfaces[i].pool = None
             /\ ~server.interfaces[i].device.shm

\* Once init() was called nothing changes the pool or the SHM bump pointer.
PoolKept ==
    life.init # "none" =>
        /\ server'.shm_frame = server.shm_frame
        /\ server'.next_shm_vaddr = server.next_shm_vaddr

\* C19: the global pool is allocated once, in init(), and its address, size
\* and physical address never change afterwards; every probed device is
\* registered with exactly that pool, no probe allocates a pool of its own or
\* advances the SHM bump pointer, and the loopback device uses none of it.
C19_OnePoolForAllDevices ==
    /\ [](PoolAsAllocated /\ DevicesShareThePool)
    /\ [][PoolKept]_vars

\* Two real devices were probed, the second by a probe pass of the running
\* loop, both registered with the pool init() allocated.
C19_Witness ==
    /\ life.run
    /\ iter.phase = "done"
    /\ Len(iter.tried) >= 1
    /\ Cardinality(Range(iter.tried)) = Len(iter.tried)
    /\ HwOf(iter.tried[Len(iter.tried)]) = 2
    /\ iter.events[1] = "probes"
    /\ offered[2] = 1
    /\ server.shm_frame # None
    /\ Cardinality(NetInterfaces) = 2
    /\ \A i \in NetInterfaces : server.interfaces[i].pool = server.shm_frame
    /\ server.next_shm_vaddr = SHM_VA + server.shm_frame[1].size

----------------------------------------------------------------------------
(* Properties of the life cycle.                                           *)

\* C16: run() on a server listen() was not called on fails with
\* NotInitialized: the service is not reported running, the loop is not
\* entered and nothing is received.
C16_RunNeedsListen == ~life.listened => (~server.running /\ iter = NoIter)


\* After stop() the loop is not running and starts no iteration, and one
\* more stop() would change nothing.
StoppedStays ==
    life.stops >= 1 =>
        /\ ~server.running
        /\ iter = NoIter
        /\ stop(server) = server
        /\ life.ret \in {"-", "Ok"}

\* A call of stop() changes the running flag and nothing else.
StopFrame ==
    life'.stops # life.stops =>
        /\ server' = [server EXCEPT !.running = FALSE]
        /\ UNCHANGED <<unicorn, iter, live, offered, uring_log, uring_ops, devvars>>

----------------------------------------------------------------------------
(* Properties of failing probes.                                           *)

\* C22: a probe failure skips only the failing device: the names behind it
\* are taken and probed in the same pass, so the pass takes every name it
\* found queued and leaves the queue empty.
C22_PassDrainsTheQueue == iter.phase = "done" => iter.tried = iter.queued

\* Hardware ids of the real interfaces of an interface list.
NetHwOf(ifaces) == {ifaces[i].hw : i \in {j \in 1..Len(ifaces) : ifaces[j].kind = "Net"}}

\* Names and hardware ids of an interface list, in its order.
Listed(ifaces) == [i \in 1..Len(ifaces) |-> <<ifaces[i].name, ifaces[i].hw>>]

\* The hardware ids of the names of a sequence but its last.
EarlierHw(names) == {HwOf(names[k]) : k \in 1..(Len(names) - 1)}

\* A probe pass that fails leaves the hardware of the name it failed on
\* unseen and without interface, when it was unseen before; a pass that
\* fails on its first name changes neither the interface list nor the set
\* of probed hardware.  The real interfaces are those of the probed hardware.
FailedProbeLeavesNoTrace ==
    (iter'.phase = "top" /\ iter.phase # "top") =>
        /\ NetHwOf(server'.interfaces) = server'.probed_hardware
        /\ (iter'.events[1] = "probes_err" /\ Len(iter'.tried) = 1) =>
               /\ Listed(server'.interfaces) = Listed(server.interfaces)
               /\ server'.probed_hardware = server.probed_hardware
        /\ iter'.events[1] = "probes_err" =>
               LET h == HwOf(iter'.tried[Len(iter'.tried)])
               IN  (h \notin server.probed_hardware /\ h \notin EarlierHw(iter'.tried)) =>
                       /\ h \notin server'.probed_hardware
                       /\ h \notin NetHwOf(server'.interfaces)

\* A HOOK whose query succeeds leaves every name the device manager lists in
\* the queue, the names of earlier failed probes among them.
HookRequeues ==
    (iter'.phase = "done" /\ iter.phase = "top" /\ Contains(iter'.events, "sync")) =>
        unicorn \subseteq Range(server'.pending_devices)

\* C23: a failed probe leaves the interface list and the set of probed
\* hardware unchanged, so its hardware stays unseen; a later HOOK whose
\* query still lists the device queues its name again, and the next probe
\* pass probes it again.
C23_FailedProbeIsRetried == [][FailedProbeLeavesNoTrace /\ HookRequeues]_vars

\* The probe of eth1 failed in one pass and left its hardware unseen; a HOOK
\* queued eth1 again and the pass after it probed it: its hardware was
\* offered twice, each time as far as the ring page of probe (one page for
\* network.json and two for the probes), and has its one interface.
C23_Witness ==
    /\ iter.phase = "top"
    /\ iter.hooked = <<"eth1">>
    /\ iter.tried = <<"eth1">>
    /\ iter.events[1] = "probes"
    /\ offered[2] = 2
    /\ offered[1] = 0
    /\ server.next_ring_vaddr = RING_VA + 3 * PGSIZE
    /\ server.probed_hardware = {2}
    /\ NetHwOf(server.interfaces) = {2}


----------------------------------------------------------------------------
(* Properties of the global routes.                                        *)

\* C24: the global 0.0.0.0/0 routes of network.json are applied to every
\* probed real interface after its address step, the interfaces that fall
\* back to 10.0.2.15/24 included: with a global route 0.0.0.0/0 via V the
\* default route of the interface is V, not 10.0.2.2.
C24_GlobalRouteWins ==
    \A i \in NetInterfaces :
        GlobalDefaults # <<>> =>
            server.interfaces[i].default_route = Some(GlobalDefaults[Len(GlobalDefaults)])


----------------------------------------------------------------------------
(* Properties of the loop under errors.                                    *)

\* C25: an iteration whose endpoint.recv fails, with WouldBlock, Timeout or
\* any other error, dispatches nothing and replies nothing, and the loop goes
\* on; no iteration, whatever failed in its probes, its receive or its
\* dispatch, leaves the loop stopped, and run() returns only after stop().
C25_OnlyStopEndsTheLoop ==
    /\ (iter.phase = "done" /\ iter.proto = "-") =>
          /\ ~iter.dispatched
          /\ iter.reply = None
          /\ iter.events \in {<<p, "poll", "recv_err">> : p \in {"probes", "probes_err"}}
    /\ iter.phase = "done" => (iter.running_after /\ server.running)
    /\ (life.run /\ life.ret # "Err" /\ ~server.running) => life.stops >= 1
    /\ life.ret = "Ok" => life.stops >= 1

\* The receive failed in an iteration whose probe pass had failed too, and
\* the loop is still running.
C25_Witness ==
    /\ iter.phase = "done"
    /\ iter.events = <<"probes_err", "poll", "recv_err">>
    /\ iter.res = "Timeout"
    /\ server.running


----------------------------------------------------------------------------
(* Properties of the notification bits.                                    *)

\* What the dispatch of the iteration it' did, after "recv" and "dispatch".
DidAfterDispatch(it) == SubSeq(it.events, 5, Len(it.events))

\* What a notification with the given bits may do: the re-sync, failed or
\* not, if HOOK is set, and then the poll if SQ or CQ is set.
MayDo(bits) ==
    {h \o q : h \in (IF "HOOK" \in bits THEN {<<"sync">>, <<"sync_err">>} ELSE {<<>>}),
              q \in (IF bits \cap {"SQ", "CQ"} # {} THEN {<<"poll">>} ELSE {<<>>})}

\* The dispatch of a notification, from the loop blocked in its receive.
NotifyStep ==
    (iter.phase = "top" /\ iter'.phase = "done" /\ iter'.label = "NOTIFY") =>
        LET bits == iter'.bits
            did == DidAfterDispatch(iter')
        IN  /\ did \in MayDo(bits)
            /\ iter'.reply = None
            /\ ("HOOK" \notin bits \/ Contains(did, "sync_err")) =>
                   server'.pending_devices = server.pending_devices
            /\ Contains(did, "sync") =>
                   /\ IsPrefix(server.pending_devices, server'.pending_devices)
                   /\ Range(server'.pending_devices) =
                          Range(server.pending_devices) \cup unicorn
            /\ server'.interfaces = IF bits \cap {"SQ", "CQ"} # {}
                                     THEN poll(server).interfaces
                                     ELSE server.interfaces
            /\ bits = {} => server' = server
            /\ server' = [server EXCEPT !.pending_devices = server'.pending_devices,
                                        !.interfaces = server'.interfaces]

\* C26: the bits of a NOTIFY badge compose: the notification re-syncs the
\* devices if and only if HOOK is set and polls the interfaces if and only
\* if SQ or CQ is set; with HOOK and SQ or CQ it does both, the re-sync
\* first, a failed re-sync does not suppress the poll, and with none of the
\* bits it changes nothing.
C26_NotifyBitsCompose == [][NotifyStep]_vars

\* A notification with HOOK and SQ whose re-sync failed was followed by the
\* poll, with a real interface in the list.
C26_Witness ==
    /\ iter.phase = "done"
    /\ iter.bits = {"HOOK", "SQ"}
    /\ DidAfterDispatch(iter) = <<"sync_err", "poll">>
    /\ NetInterfaces # {}

----------------------------------------------------------------------------
(* Properties of process_iouring on one call.                              *)

\* The badges whose uring a step of process_iouring drained.
DrainedBadges ==
    {b \in DOMAIN server.uring_servers \cap DOMAIN server'.uring_servers :
        /\ b \in DOMAIN uring_log
        /\ b \in DOMAIN uring_log'
        /\ Len(uring_log'[b].taken) > Len(uring_log[b].taken)}

\* The completions a step queued on the uring of badge b.
QueuedBy(b) ==
    Appended(server'.uring_servers[b].cq, Len(server.uring_servers[b].cq))

\* The completion of an operation the service does not support.
Unsupported == [neg |-> TRUE, len |-> 0, err |-> "NotSupported"]

\* A call that drains a uring answers each request whose opcode is neither
\* READ nor WRITE with one completion, and a call that takes only such
\* requests touches no socket.
UnknownOpcodeStep ==
    \A b \in DrainedBadges :
        LET sq == server.uring_servers[b].sq
            new == QueuedBy(b)
        IN  /\ \A k \in 1..Len(sq) :
                   sq[k].opcode \notin {"READ", "WRITE"} =>
                       /\ Cardinality({j \in 1..Len(new) :
                                          new[j].user_data = sq[k].user_data}) = 1
                       /\ \A j \in 1..Len(new) :
                              new[j].user_data = sq[k].user_data =>
                                  new[j].res = Unsupported
            /\ (\A k \in 1..Len(sq) : sq[k].opcode \notin {"READ", "WRITE"}) =>
                   server'.sockets = server.sockets
            /\ server'.uring_servers[b].sq = <<>>

\* C27: a request whose opcode is neither READ nor WRITE produces exactly
\* one completion, with the request's user_data and the result
\* -(NotSupported), without a send or a recv on the socket, and the requests
\* behind it are still drained.
C27_UnknownOpcodeCompletedOnce == [][UnknownOpcodeStep]_vars

----------------------------------------------------------------------------
(* Properties of the queue of names under repeated listings.               *)

\* Whether no element occurs twice in seq.
NoRepeat(seq) == \A i, j \in 1..Len(seq) : seq[i] = seq[j] => i = j

\* seq without the later occurrences of its elements.
RECURSIVE FirstOccurrences(_)
FirstOccurrences(seq) ==
    IF seq = <<>> THEN <<>>
    ELSE LET front == FirstOccurrences(SubSeq(seq, 1, Len(seq) - 1))
         IN  IF Contains(front, seq[Len(seq)]) THEN front
             ELSE Append(front, seq[Len(seq)])

\* The re-sync of the last device event: the queue it found is LeftWaiting,
\* the names it appended are iter.hooked.
ResyncAppendsTheNewNames ==
    (iter.phase = "done" /\ iter.label = "NOTIFY" /\ "HOOK" \in iter.bits) =>
        /\ server.pending_devices = LeftWaiting \o iter.hooked
        /\ Contains(iter.events, "sync") =>
               iter.hooked =
                   FirstOccurrences(SelectSeq(iter.listed,
                                              LAMBDA n : ~Contains(LeftWaiting, n)))
        /\ Contains(iter.events, "sync_err") => iter.hooked = <<>>

\* C28: the queue of pending names never holds a name twice: a sync appends
\* a listed name only if it is not queued, also when one answer lists the
\* name twice, it leaves the queued names and their order as they are, and a
\* failed query changes nothing.
C28_PendingHoldsNoNameTwice ==
    /\ NoRepeat(server.pending_devices)
    /\ ResyncAppendsTheNewNames

\* An answer that lists a device twice met a queue that held one of its
\* names, and its other name was appended once.
C28_Witness ==
    /\ iter.phase = "done"
    /\ "HOOK" \in iter.bits
    /\ Contains(iter.events, "sync")
    /\ ~NoRepeat(iter.listed)
    /\ \E n \in Range(iter.listed) : Contains(LeftWaiting, n)
    /\ iter.hooked # <<>>
    /\ Len(server.pending_devices) >= 2

----------------------------------------------------------------------------
(* Properties of the size of the packet pool.                              *)

\* The smallest multiple of the page size that is at least n.
LeastPageMultiple(n) ==
    LET multiples == {k * PGSIZE : k \in 0..(DEFAULT_BUFFER_SIZE \div PGSIZE + 1)}
    IN  CHOOSE m \in multiples : m >= n /\ \A o \in multiples : o >= n => m <= o

\* The contents of network.json that init reads to the end.
ConfigRead == life.cfg \in {"valid", "absent", "not_utf8", "malformed"}

\* C29: the pool init allocates is the smallest multiple of 4096 that is at
\* least the configured buffer_size, and 1 MiB (256 pages) when network.json
\* is absent, no UTF-8 or malformed; in each of these cases init succeeds
\* when no call to its environment fails, and the pool holds the RX buffer
\* of RX_BUF_LEN bytes at offset 0.
C29_PoolSizedFromConfig ==
    /\ (ConfigRead /\ life.fail = "none") => life.init = "ok"
    /\ (ConfigRead /\ server.shm_frame # None) =>
           LET size == server.shm_frame[1].size
           IN  /\ life.cfg = "valid" =>
                      size = LeastPageMultiple(server.config[1].buffer_size)
               /\ life.cfg # "valid" =>
                      /\ size = 1024 * 1024
                      /\ size = 256 * PGSIZE
               /\ size >= RX_BUF_LEN

----------------------------------------------------------------------------
(* Properties of process_iouring across a call.                            *)

\* process_iouring on a badge without a uring.
UnregisteredBadgeRefused ==
    \A b \in BadgeInputs \ DOMAIN server.uring_servers :
        process_iouring(server, b) = [s |-> server, r |-> Err("NotFound")]

\* The badges a step of process_iouring took requests from.
TakenFrom ==
    {b \in DOMAIN uring_log \cap DOMAIN uring_log' :
        Len(uring_log'[b].taken) > Len(uring_log[b].taken)}

\* A call on a badge with a uring: the requests are taken in the order of
\* the submission queue, their completions are queued in that order behind
\* those already there, the submission queue is left empty and the uring
\* stays in the table under its badge.
RegisteredBadgeDrained ==
    \A b \in TakenFrom :
        /\ b \in DOMAIN server.uring_servers
        /\ b \in DOMAIN server'.uring_servers
        /\ LET before == server.uring_servers[b]
               after == server'.uring_servers[b]
           IN  /\ Appended(uring_log'[b].taken, Len(uring_log[b].taken)) =
                      UserDataOf(before.sq)
               /\ IsPrefix(before.cq, after.cq)
               /\ UserDataOf(Appended(after.cq, Len(before.cq))) = UserDataOf(before.sq)
               /\ after.sq = <<>>
               /\ after.addr = before.addr
               /\ after.size = before.size
        /\ DOMAIN server'.uring_servers = DOMAIN server.uring_servers

\* C30: process_iouring on a badge without a uring returns NotFound and
\* changes nothing; on a badge with one it handles the pending requests in
\* submission order, writes their completions in that order, leaves the
\* submission queue empty, and the uring is still registered under the same
\* badge when the call returns.
C30_UringKeptAcrossCall ==
    /\ []UnregisteredBadgeRefused
    /\ [][RegisteredBadgeDrained]_vars

----------------------------------------------------------------------------
(* Properties of the two tables keyed by badge.                            *)

\* C31: every badge with a registered uring is a badge of the socket table:
\* no uring outlives its socket, in particular after close() on a socket
\* that had called setup_iouring, and process_iouring on a badge that is not
\* in the socket table returns NotFound.
C31_NoUringOutlivesItsSocket ==
    /\ DOMAIN server.uring_servers \subseteq DOMAIN server.socket_map
    /\ \A b \in BadgeInputs \ DOMAIN server.socket_map :
           process_iouring(server, b).r = Err("NotFound")

----------------------------------------------------------------------------
(* Properties of the badges over the run.                                  *)

\* A socket() that succeeds returns a badge no earlier socket() returned and
\* no close() was called on.
FreshBadgeStep ==
    Len(life'.issued) > Len(life.issued) =>
        LET badge == life'.issued[Len(life'.issued)]
        IN  /\ life'.issued = Append(life.issued, badge)
            /\ badge \notin Range(life.issued)
            /\ badge \notin life.closed
            /\ badge \in DOMAIN server'.socket_map

\* C32: badges identify sockets uniquely over the whole run: no two
\* successful socket() calls return the same badge, a badge that was closed
\* is never returned again, and so a closed badge is never again a badge of
\* the socket table.
C32_BadgesNeverReused ==
    /\ [](NoRepeat(life.issued) /\ life.closed \cap DOMAIN server.socket_map = {})
    /\ [][FreshBadgeStep]_vars

\* A socket() succeeded after the close() of an earlier socket.
C32_Witness ==
    /\ Len(life.issued) = 2
    /\ life.issued[1] \in life.closed
    /\ life.issued[2] \in DOMAIN server.socket_map
    /\ iter.label = "SOCKET"
    /\ iter.res = "Ok"

----------------------------------------------------------------------------
(* Properties of the token receive() returns.                              *)

\* receive() on device d, from its state before the call: the head
\* completion it peeks is that of the queue after its submission.
ReceiveStep(d) ==
    (dev_ops' = dev_ops + 1
        /\ netdev'[d].sq \in {netdev[d].sq, Append(netdev[d].sq, ReadSqe)}
        /\ (netdev'[d] # netdev[d] \/ rx_token'[d] # rx_token[d])) =>
        LET before == receive_submit(netdev[d])
            after == netdev'[d]
            token == rx_token'[d]
            head == Head(before.cq)
            tagged == before.rx_pending /\ before.cq # <<>> /\ head.user_data = RX_ID
        IN  /\ token # None <=> (tagged /\ head.res > 0)
            /\ token # None =>
                   /\ token[1].shm_idx = 0
                   /\ token[1].len = head.res
                   /\ token[1].len <= RX_BUF_LEN
            /\ (tagged /\ head.res <= 0) => ~after.rx_pending
            /\ (before.cq # <<>> /\ head.user_data # RX_ID) =>
                   after.rx_pending = before.rx_pending

\* C33: receive() returns a token only when an RX is pending and the head
\* completion carries the RX tag with a result > 0; the token covers exactly
\* `result` bytes from offset 0 of the pool and never more than the
\* RX_BUF_LEN bytes submitted, whatever result the driver reports; a tagged
\* head completion with a result <= 0 clears the pending flag and gives no
\* token, and a head completion with another user_data gives no token and
\* leaves the flag.
C33_TokenWithinRxBuffer == [][\A d \in Devices : ReceiveStep(d)]_vars

----------------------------------------------------------------------------
(* Properties of the interface list over the run.                          *)

\* After a successful init a step keeps the interfaces of the list where
\* they are and adds new ones behind them.
InterfacesOnlyAdded ==
    life.init = "ok" =>
        IsPrefix(Listed(server.interfaces), Listed(server'.interfaces))

\* The loopback is the first interface, and the real interfaces are as many
\* as the hardware ids probed.
LoopbackFirstAndDevicesCounted ==
    life.init = "ok" =>
        /\ server.interfaces # <<>>
        /\ server.interfaces[1].kind = "Loopback"
        /\ \A i \in 2..Len(server.interfaces) : server.interfaces[i].kind = "Net"
        /\ Cardinality(NetInterfaces) = Cardinality(server.probed_hardware)

\* C34: after a successful init the interface list only grows: no step
\* removes or reorders an interface, the loopback stays at index 0, and in
\* every state between the steps of the loop the number of real interfaces
\* is the number of hardware ids in the probed set.
C34_InterfaceListOnlyGrows ==
    /\ []LoopbackFirstAndDevicesCounted
    /\ [][InterfacesOnlyAdded]_vars

\* An iteration of the running loop took names in its probe pass and polled,
\* with the loopback and the interfaces of both hardware ids in the list.
C34_Witness ==
    /\ life.init = "ok"
    /\ life.run
    /\ iter.phase = "done"
    /\ iter.tried # <<>>
    /\ Contains(iter.events, "poll")
    /\ "SQ" \in iter.bits
    /\ Cardinality(NetInterfaces) = 2
    /\ server.probed_hardware = HwIds
    /\ server.interfaces[1].kind = "Loopback"

====
